---- MODULE Spec2Model ----
(***************************************************************************)
(* Model of the go-monigo client library: the transport core Client.do,    *)
(* the error taxonomy of errors.go, client construction (New and its       *)
(* options) and the resource facades that delegate to do.                  *)
(*                                                                         *)
(* One facade call is in progress at a time.  A call passes through the    *)
(* points where the library hands control to its environment: the HTTP     *)
(* executor (httpClient.Do) and the reading of the response body           *)
(* (io.ReadAll).  The environment (server, network, context owner) is      *)
(* nondeterministic.                                                       *)
(***************************************************************************)
EXTENDS Integers, Sequences, FiniteSets, TLC

VARIABLES
    args,       \* the arguments of the call of New, where New is observed
    client,     \* the Client built by New: apiKey, baseURL, httpClient
    pc,         \* position of the current facade call
    call,       \* arguments of the current facade call
    ctx,        \* state of the call's context.Context
    request,    \* the *http.Request built by do (NoRequest before that)
    resp,       \* status and body of the response (NoResp before that)
    sends,      \* invocations of httpClient.Do made by the current call
    decoded,    \* TRUE iff json.Unmarshal(respBody, out) ran in this call
    result,     \* first return value of the facade method
    err,        \* error value returned by the facade method
    verdict,    \* outcome of the seven predicates applied to err
    calls,      \* the facade calls of concurrent callers, one record each
    main,       \* local variables of an example program's main function
    text        \* what err.Error() returned, where the caller asked for it

vars == <<args, client, pc, call, ctx, request, resp, sends, decoded, result, err,
          verdict, calls, main, text>>

(***************************************************************************)
(* Bounds of the model.                                                    *)
(***************************************************************************)
MaxWrap == 2    \* depth of fmt.Errorf("%w") wrapping around a classified error
MaxOpts == 1    \* number of options passed to New
MaxNewOpts == 2 \* number of options passed to New where New is observed

(***************************************************************************)
(* JSON documents.  A response body is its raw text together with what     *)
(* encoding/json sees when it scans that text.                             *)
(***************************************************************************)
JNull   == [t |-> "null"]
JStr(s) == [t |-> "string", s |-> s]
JNum(n) == [t |-> "number", n |-> n]
JObj(f) == [t |-> "object", f |-> f]
JArr(a) == [t |-> "array", a |-> a]
Invalid == [t |-> "invalid"]
Absent  == [t |-> "absent"]

EmptyMap == <<>>

Body(raw, parse) == [raw |-> raw, parse |-> parse]

\* encoding/json matches object keys to struct fields case-insensitively.
Fold(k) == CASE k = "Error" -> "error"
             [] k = "Details" -> "details"
             [] k = "ID" -> "id"
             [] OTHER -> k

\* The value an object holds for the struct field tagged `name`.
Field(f, name) ==
    IF \E k \in DOMAIN f : Fold(k) = name
    THEN f[CHOOSE k \in DOMAIN f : Fold(k) = name]
    ELSE Absent

\* Decoding one JSON value into a Go string that currently holds cur.
DecodeString(jv, cur) ==
    CASE jv.t = "string" -> [err |-> FALSE, val |-> jv.s]
      [] jv.t \in {"absent", "null"} -> [err |-> FALSE, val |-> cur]
      [] OTHER -> [err |-> TRUE, val |-> cur]

\* Decoding one JSON value into a Go int.
DecodeInt(jv, cur) ==
    CASE jv.t = "number" -> [err |-> FALSE, val |-> jv.n]
      [] jv.t \in {"absent", "null"} -> [err |-> FALSE, val |-> cur]
      [] OTHER -> [err |-> TRUE, val |-> cur]

\* Decoding into map[string]string: a member of the wrong type is reported
\* as an UnmarshalTypeError and its key is stored with the zero value.
DecodeStrMap(jv, cur) ==
    CASE jv.t = "object" ->
            [err |-> \E k \in DOMAIN jv.f : jv.f[k].t \notin {"string", "null"},
             val |-> [k \in DOMAIN jv.f \cup DOMAIN cur |->
                        IF k \in DOMAIN jv.f
                        THEN (IF jv.f[k].t = "string" THEN jv.f[k].s ELSE "")
                        ELSE cur[k]]]
      [] jv.t = "null" -> [err |-> FALSE, val |-> EmptyMap]
      [] jv.t = "absent" -> [err |-> FALSE, val |-> cur]
      [] OTHER -> [err |-> TRUE, val |-> cur]

\* Decoding into []string.
DecodeStrList(jv, cur) ==
    CASE jv.t = "array" ->
            [err |-> \E i \in DOMAIN jv.a : jv.a[i].t \notin {"string", "null"},
             val |-> [i \in DOMAIN jv.a |->
                        IF jv.a[i].t = "string" THEN jv.a[i].s ELSE ""]]
      [] jv.t = "null" -> [err |-> FALSE, val |-> <<>>]
      [] jv.t = "absent" -> [err |-> FALSE, val |-> cur]
      [] OTHER -> [err |-> TRUE, val |-> cur]

(***************************************************************************)
(* Resources.  Every resource type (Customer, Metric, Plan, Subscription,  *)
(* PayoutAccount, Invoice, PortalToken, EventReplayJob) is represented by  *)
(* its ID field.                                                           *)
(***************************************************************************)
ZeroResource == [ID |-> ""]

DecodeResource(jv, cur) ==
    CASE jv.t = "object" ->
            LET id == DecodeString(Field(jv.f, "id"), cur.ID)
            IN  [err |-> id.err, val |-> [ID |-> id.val]]
      [] jv.t \in {"absent", "null"} -> [err |-> FALSE, val |-> cur]
      [] OTHER -> [err |-> TRUE, val |-> cur]

DecodeResourceList(jv, cur) ==
    CASE jv.t = "array" ->
            [err |-> \E i \in DOMAIN jv.a : DecodeResource(jv.a[i], ZeroResource).err,
             val |-> [i \in DOMAIN jv.a |-> DecodeResource(jv.a[i], ZeroResource).val]]
      [] jv.t = "null" -> [err |-> FALSE, val |-> <<>>]
      [] jv.t = "absent" -> [err |-> FALSE, val |-> cur]
      [] OTHER -> [err |-> TRUE, val |-> cur]

(***************************************************************************)
(* Error values.                                                           *)
(***************************************************************************)
NoErr == [kind |-> "nil"]

\* A non-nil *APIError.
APIError(status, message, details) ==
    [kind |-> "api", StatusCode |-> status, Message |-> message, Details |-> details]

\* An error interface holding a nil *APIError.
NilAPIError == [kind |-> "nilapi", StatusCode |-> 0]

\* An error that is no *APIError and wraps nothing.
Plain(name) == [kind |-> "plain", name |-> name]

\* fmt.Errorf(prefix + ": %w", inner), and *url.Error, which also unwraps.
Wrap(prefix, inner) == [kind |-> "wrap", prefix |-> prefix, inner |-> inner]

\* As UnmarshalAPIError, had StatusCode been tagged json:"StatusCode".
UnmarshalAPIErrorWithStatus(body, e) ==
    LET p == body.parse IN
    CASE p.t = "invalid" -> [err |-> TRUE, e |-> e]
      [] p.t = "null" -> [err |-> FALSE, e |-> e]
      [] p.t = "object" ->
            LET m == DecodeString(Field(p.f, "error"), e.Message)
                d == DecodeStrMap(Field(p.f, "details"), e.Details)
                c == DecodeInt(Field(p.f, "StatusCode"), e.StatusCode)
            IN  [err |-> m.err \/ d.err \/ c.err,
                 e |-> [e EXCEPT !.Message = m.val, !.Details = d.val,
                                 !.StatusCode = c.val]]
      [] OTHER -> [err |-> TRUE, e |-> e]

\* json.Unmarshal(respBody, apiErr): StatusCode is tagged json:"-".
UnmarshalAPIError(body, e) ==
    LET p == body.parse IN
    CASE p.t = "invalid" -> [err |-> TRUE, e |-> e]
      [] p.t = "null" -> [err |-> FALSE, e |-> e]
      [] p.t = "object" ->
            LET m == DecodeString(Field(p.f, "error"), e.Message)
                d == DecodeStrMap(Field(p.f, "details"), e.Details)
            IN  [err |-> m.err \/ d.err,
                 e |-> [e EXCEPT !.Message = m.val, !.Details = d.val]]
      [] OTHER -> [err |-> TRUE, e |-> e]

\* errors.As(err, &e) with e of type *APIError.
RECURSIVE As(_)
As(e) ==
    CASE e.kind \in {"api", "nilapi"} -> [ok |-> TRUE, e |-> e]
      [] e.kind = "wrap" -> As(e.inner)
      [] OTHER -> [ok |-> FALSE, e |-> NoErr]

\* What a predicate call does: it returns a boolean or it panics.
Ret(b) == [panicked |-> FALSE, value |-> b]
Panic  == [panicked |-> TRUE, value |-> FALSE]

\* errors.As(err, &e) && cond(e): evaluating cond dereferences e.
Classified(e, cond(_)) ==
    LET r == As(e) IN
    IF ~r.ok THEN Ret(FALSE)
    ELSE IF r.e.kind = "nilapi" THEN Panic
    ELSE Ret(cond(r.e))

IsNotFound(e) == Classified(e, LAMBDA a : a.StatusCode = 404)

IsUnauthorized(e) == Classified(e, LAMBDA a : a.StatusCode = 401)

IsForbidden(e) == Classified(e, LAMBDA a : a.StatusCode = 403)

IsConflict(e) == Classified(e, LAMBDA a : a.StatusCode = 409)

\* As IsRateLimited, with >= for ==.
IsRateLimitedAtLeast(e) == Classified(e, LAMBDA a : a.StatusCode >= 429)

IsRateLimited(e) == Classified(e, LAMBDA a : a.StatusCode = 429)

IsQuotaExceeded(e) == Classified(e, LAMBDA a : a.StatusCode = 402)

\* As IsValidationError, without the test of Details.
IsValidationErrorAny400(e) == Classified(e, LAMBDA a : a.StatusCode = 400)

IsValidationError(e) ==
    Classified(e, LAMBDA a : a.StatusCode = 400 /\ DOMAIN a.Details # {})

\* The decimal digits.
Digit == <<"0", "1", "2", "3", "4", "5", "6", "7", "8", "9">>

\* fmt's %d of a non-negative int.
RECURSIVE Itoa(_)
Itoa(n) == IF n < 10 THEN Digit[n + 1] ELSE Itoa(n \div 10) \o Digit[(n % 10) + 1]

\* The keys of Details in the order fmt prints a map: sorted.
DetailKeys == <<"a", "email", "name">>

\* The entries of m from the i-th key on, as fmt prints them: k:v, separated
\* by one space.
RECURSIVE FormatEntries(_, _)
FormatEntries(m, i) ==
    IF i > Len(DetailKeys) THEN ""
    ELSE LET k == DetailKeys[i]
             rest == FormatEntries(m, i + 1)
         IN  IF k \notin DOMAIN m THEN rest
             ELSE k \o ":" \o m[k] \o (IF rest = "" THEN "" ELSE " " \o rest)

\* fmt's %v of a map[string]string.
FormatMap(m) == "map[" \o FormatEntries(m, 1) \o "]"

\* As Error, without the branch that prints Details.
ErrorWithoutDetails(e) ==
    "monigo: HTTP " \o Itoa(e.StatusCode) \o ": " \o e.Message

\* (*APIError).Error
Error(e) ==
    IF DOMAIN e.Details # {}
    THEN "monigo: HTTP " \o Itoa(e.StatusCode) \o ": " \o e.Message \o
         " (" \o FormatMap(e.Details) \o ")"
    ELSE "monigo: HTTP " \o Itoa(e.StatusCode) \o ": " \o e.Message

Predicates ==
    {"IsNotFound", "IsUnauthorized", "IsForbidden", "IsConflict",
     "IsRateLimited", "IsQuotaExceeded", "IsValidationError"}

Apply(p, e) ==
    CASE p = "IsNotFound" -> IsNotFound(e)
      [] p = "IsUnauthorized" -> IsUnauthorized(e)
      [] p = "IsForbidden" -> IsForbidden(e)
      [] p = "IsConflict" -> IsConflict(e)
      [] p = "IsRateLimited" -> IsRateLimited(e)
      [] p = "IsQuotaExceeded" -> IsQuotaExceeded(e)
      [] p = "IsValidationError" -> IsValidationError(e)


(***************************************************************************)
(* Client construction.                                                    *)
(***************************************************************************)
defaultBaseURL == "https://api.monigo.co"

\* Base URLs handed to WithBaseURL.
BaseURLs == {"http://127.0.0.1:8080/", "http://127.0.0.1:8080//", "http://bad\nhost"}

\* As TrimRight, with strings.TrimSuffix: one trailing slash is removed.
TrimSuffix(u) ==
    IF u # "" /\ SubSeq(u, Len(u), Len(u)) = "/"
    THEN SubSeq(u, 1, Len(u) - 1)
    ELSE u

\* strings.TrimRight(u, "/")
RECURSIVE TrimRight(_)
TrimRight(u) ==
    IF u # "" /\ SubSeq(u, Len(u), Len(u)) = "/"
    THEN TrimRight(SubSeq(u, 1, Len(u) - 1))
    ELSE u

\* Base URLs that url.Parse rejects (control character).
BadBaseURLs == {"http://bad\nhost"}

APIKeys == {"test_key_abc", "sk_test", "bad\nkey"}

\* API keys that make an invalid header value (control character): the
\* transport refuses the request.
BadAPIKeys == {"bad\nkey"}

InvalidHeader == Plain("net/http: invalid header field value")

WithBaseURL(u) == [opt |-> "WithBaseURL", arg |-> u]

WithHTTPClient(hc) == [opt |-> "WithHTTPClient", arg |-> hc]

Options ==
    {WithBaseURL(u) : u \in BaseURLs} \cup
    {WithHTTPClient(hc) : hc \in {"custom", "nil"}}

\* o(c): the effect of one option on the client under construction.
ApplyOption(c, o) ==
    IF o.opt = "WithBaseURL"
    THEN [c EXCEPT !.baseURL = TrimRight(o.arg)]
    ELSE [c EXCEPT !.httpClient = o.arg]

RECURSIVE ApplyOptions(_, _)
ApplyOptions(c, opts) ==
    IF opts = <<>> THEN c
    ELSE ApplyOptions(ApplyOption(c, Head(opts)), Tail(opts))

\* The services New binds to the client it returns.
Services ==
    {"Events", "Customers", "Metrics", "Plans", "Subscriptions",
     "PayoutAccounts", "Invoices", "Usage"}

\* What a service reaches through its client pointer.
Config(c) == [apiKey |-> c.apiKey, baseURL |-> c.baseURL, httpClient |-> c.httpClient]

\* As New, had the services been bound to a copy of the client taken before
\* the options were applied.
NewBoundBeforeOptions(apiKey, opts) ==
    LET c0 == [apiKey |-> apiKey, baseURL |-> defaultBaseURL,
               httpClient |-> "default", services |-> <<>>]
        c == ApplyOptions(c0, opts)
    IN  [c EXCEPT !.services = [svc \in Services |-> Config(c0)]]

\* New: the defaults, then the options in order, then one service per
\* resource family, each pointing to the client.
New(apiKey, opts) ==
    LET c == ApplyOptions([apiKey |-> apiKey, baseURL |-> defaultBaseURL,
                           httpClient |-> "default", services |-> <<>>], opts)
    IN  [c EXCEPT !.services = [svc \in Services |-> Config(c)]]

OptionLists == UNION {[1..n -> Options] : n \in 0..MaxOpts}

\* The arguments of New.
NewArgs ==
    {[apiKey |-> k, opts |-> o] :
        k \in APIKeys, o \in UNION {[1..n -> Options] : n \in 0..MaxNewOpts}}

\* New is not observed.
NoArgs == [observed |-> FALSE]

\* No concurrent callers are observed.
NoCalls == <<>>

\* No example program is running.
NoMain == [running |-> FALSE]

\* Error() has not been called.
NoText == [called |-> FALSE]

(***************************************************************************)
(* Resource facades: one row per method.                                   *)
(*   body : "nil"  the method passes no body                               *)
(*          "req"  the caller's request struct, whose json.RawMessage or   *)
(*                 map[string]any members can make json.Marshal fail       *)
(*          "safe" a body that always marshals                             *)
(*   out  : "none" no decode target; "wrapper" a struct with one resource  *)
(*          under key; "list" a slice of resources under key and a count;  *)
(*          "ingest" the ingested and duplicates lists                     *)
(*   path = pre, or pre id1 mid, or pre id1 mid id2 (nids = 0, 1, 2)       *)
(***************************************************************************)
F(svc, op, method, pre, nids, mid, body, out, key) ==
    [svc |-> svc, op |-> op, method |-> method, pre |-> pre, nids |-> nids,
     mid |-> mid, body |-> body, out |-> out, key |-> key]

CustomerFacades ==
    {F("Customers", "Create", "POST", "/v1/customers", 0, "", "req", "wrapper", "customer"),
     F("Customers", "List", "GET", "/v1/customers", 0, "", "nil", "list", "customers"),
     F("Customers", "Get", "GET", "/v1/customers/", 1, "", "nil", "wrapper", "customer"),
     F("Customers", "Update", "PUT", "/v1/customers/", 1, "", "req", "wrapper", "customer"),
     F("Customers", "Delete", "DELETE", "/v1/customers/", 1, "", "nil", "none", "")}

MetricFacades ==
    {F("Metrics", "Create", "POST", "/v1/metrics", 0, "", "safe", "wrapper", "metric"),
     F("Metrics", "List", "GET", "/v1/metrics", 0, "", "nil", "list", "metrics"),
     F("Metrics", "Get", "GET", "/v1/metrics/", 1, "", "nil", "wrapper", "metric"),
     F("Metrics", "Update", "PUT", "/v1/metrics/", 1, "", "safe", "wrapper", "metric"),
     F("Metrics", "Delete", "DELETE", "/v1/metrics/", 1, "", "nil", "none", "")}

PlanFacades ==
    {F("Plans", "Create", "POST", "/v1/plans", 0, "", "req", "wrapper", "plan"),
     F("Plans", "List", "GET", "/v1/plans", 0, "", "nil", "list", "plans"),
     F("Plans", "Get", "GET", "/v1/plans/", 1, "", "nil", "wrapper", "plan"),
     F("Plans", "Update", "PUT", "/v1/plans/", 1, "", "req", "wrapper", "plan"),
     F("Plans", "Delete", "DELETE", "/v1/plans/", 1, "", "nil", "none", "")}

SubscriptionFacades ==
    {F("Subscriptions", "Create", "POST", "/v1/subscriptions", 0, "", "safe", "wrapper", "subscription"),
     F("Subscriptions", "List", "GET", "/v1/subscriptions", 0, "", "nil", "list", "subscriptions"),
     F("Subscriptions", "Get", "GET", "/v1/subscriptions/", 1, "", "nil", "wrapper", "subscription"),
     F("Subscriptions", "UpdateStatus", "PATCH", "/v1/subscriptions/", 1, "", "safe", "wrapper", "subscription"),
     F("Subscriptions", "Delete", "DELETE", "/v1/subscriptions/", 1, "", "nil", "none", "")}

PayoutAccountFacades ==
    {F("PayoutAccounts", "Create", "POST", "/v1/customers/", 1, "/payout-accounts", "req", "wrapper", "payout_account"),
     F("PayoutAccounts", "List", "GET", "/v1/customers/", 1, "/payout-accounts", "nil", "list", "payout_accounts"),
     F("PayoutAccounts", "Get", "GET", "/v1/customers/", 2, "/payout-accounts/", "nil", "wrapper", "payout_account"),
     F("PayoutAccounts", "Update", "PUT", "/v1/customers/", 2, "/payout-accounts/", "req", "wrapper", "payout_account"),
     F("PayoutAccounts", "Delete", "DELETE", "/v1/customers/", 2, "/payout-accounts/", "nil", "none", "")}

InvoiceFacades ==
    {F("Invoices", "Generate", "POST", "/v1/invoices/generate", 0, "", "safe", "wrapper", "invoice"),
     F("Invoices", "List", "GET", "/v1/invoices", 0, "", "nil", "list", "invoices"),
     F("Invoices", "Get", "GET", "/v1/invoices/", 1, "", "nil", "wrapper", "invoice"),
     F("Invoices", "Finalize", "POST", "/v1/invoices/", 1, "/finalize", "nil", "wrapper", "invoice"),
     F("Invoices", "Void", "POST", "/v1/invoices/", 1, "/void", "nil", "wrapper", "invoice")}

UsageFacades ==
    {F("Usage", "Query", "GET", "/v1/usage", 0, "", "nil", "list", "rollups")}

PortalTokenFacades ==
    {F("PortalTokens", "Create", "POST", "/v1/portal/tokens", 0, "", "safe", "wrapper", "token"),
     F("PortalTokens", "List", "GET", "/v1/portal/tokens?customer_id=", 1, "", "nil", "list", "tokens"),
     F("PortalTokens", "Revoke", "DELETE", "/v1/portal/tokens/", 1, "", "nil", "none", "")}

EventFacades ==
    {F("Events", "Ingest", "POST", "/v1/ingest", 0, "", "req", "ingest", ""),
     F("Events", "StartReplay", "POST", "/v1/events/replay", 0, "", "safe", "wrapper", "job"),
     F("Events", "GetReplay", "GET", "/v1/events/replay/", 1, "", "nil", "wrapper", "job")}

Facades ==
    CustomerFacades \cup MetricFacades \cup PlanFacades \cup SubscriptionFacades
    \cup PayoutAccountFacades \cup InvoiceFacades \cup UsageFacades
    \cup PortalTokenFacades \cup EventFacades


(***************************************************************************)
(* Strings and URLs: net/url as the client and the server use it.          *)
(***************************************************************************)
\* strings.Index(s, c) + 1 for a one-character c, from position i on.
IndexFrom(s, c, i) ==
    LET hits == {j \in i..Len(s) : SubSeq(s, j, j) = c}
    IN  IF hits = {} THEN 0 ELSE CHOOSE j \in hits : \A k \in hits : j <= k

\* strings.Cut(s, c)
Cut(s, c) ==
    LET i == IndexFrom(s, c, 1)
    IN  IF i = 0
        THEN [found |-> FALSE, before |-> s, after |-> ""]
        ELSE [found |-> TRUE, before |-> SubSeq(s, 1, i - 1),
              after |-> SubSeq(s, i + 1, Len(s))]

\* strings.Split(s, c)
RECURSIVE Split(_, _)
Split(s, c) ==
    LET x == Cut(s, c)
    IN  IF x.found THEN <<x.before>> \o Split(x.after, c) ELSE <<s>>

\* The characters net/url never escapes.
Unreserved ==
    {"a", "b", "c", "d", "e", "f", "g", "h", "i", "j", "k", "l", "m",
     "n", "o", "p", "q", "r", "s", "t", "u", "v", "w", "x", "y", "z",
     "A", "B", "C", "D", "E", "F", "G", "H", "I", "J", "K", "L", "M",
     "N", "O", "P", "Q", "R", "S", "T", "U", "V", "W", "X", "Y", "Z",
     "0", "1", "2", "3", "4", "5", "6", "7", "8", "9", "-", "_", ".", "~"}

HexDigits ==
    {"0", "1", "2", "3", "4", "5", "6", "7", "8", "9",
     "a", "b", "c", "d", "e", "f", "A", "B", "C", "D", "E", "F"}

\* The code of each character that is not unreserved, in hexadecimal.
HexOf ==
    (" " :> "20") @@ ("#" :> "23") @@ ("%" :> "25") @@ ("&" :> "26") @@
    ("+" :> "2B") @@ ("/" :> "2F") @@ (":" :> "3A") @@ ("=" :> "3D") @@
    ("?" :> "3F") @@ ("\n" :> "0A")

\* The character of a hexadecimal code.
CharOf(h) ==
    IF \E c \in DOMAIN HexOf : HexOf[c] = h
    THEN CHOOSE c \in DOMAIN HexOf : HexOf[c] = h
    ELSE "%" \o h

\* url.QueryEscape(s), character by character: the characters lo..hi of s.
RECURSIVE EscapeRange(_, _, _)
EscapeRange(s, lo, hi) ==
    IF lo > hi THEN ""
    ELSE IF lo = hi
    THEN LET c == SubSeq(s, lo, lo)
         IN  IF c \in Unreserved THEN c
             ELSE IF c = " " THEN "+"
             ELSE "%" \o HexOf[c]
    ELSE LET mid == (lo + hi) \div 2
         IN  EscapeRange(s, lo, mid) \o EscapeRange(s, mid + 1, hi)

\* url.QueryEscape(s)
QueryEscape(s) == EscapeRange(s, 1, Len(s))

\* The character at position i of s is a "%" that starts no escape.
BadEscape(s, i) ==
    /\ SubSeq(s, i, i) = "%"
    /\ ~(/\ i + 2 <= Len(s)
         /\ SubSeq(s, i + 1, i + 1) \in HexDigits
         /\ SubSeq(s, i + 2, i + 2) \in HexDigits)

\* What url.unescape makes of the characters lo..hi of a string without a
\* bad escape: "%XX" becomes the character of code XX, and "+" a space
\* where plus is TRUE.
RECURSIVE UnescapeRange(_, _, _, _)
UnescapeRange(s, lo, hi, plus) ==
    IF lo > hi THEN ""
    ELSE IF lo = hi
    THEN LET c == SubSeq(s, lo, lo)
         IN  IF c = "%" THEN CharOf(SubSeq(s, lo + 1, lo + 2))
             ELSE IF \/ lo > 1 /\ SubSeq(s, lo - 1, lo - 1) = "%"
                     \/ lo > 2 /\ SubSeq(s, lo - 2, lo - 2) = "%"
             THEN ""
             ELSE IF plus /\ c = "+" THEN " "
             ELSE c
    ELSE LET mid == (lo + hi) \div 2
         IN  UnescapeRange(s, lo, mid, plus) \o UnescapeRange(s, mid + 1, hi, plus)

\* url.unescape(s, mode): plus is TRUE in a query component.  A "%" not
\* followed by two hex digits is an error.
Unescape(s, plus) ==
    IF \E i \in 1..Len(s) : BadEscape(s, i)
    THEN [err |-> TRUE, val |-> ""]
    ELSE [err |-> FALSE, val |-> UnescapeRange(s, 1, Len(s), plus)]

\* stringContainsCTLByte(s)
ContainsCTL(s) == IndexFrom(s, "\n", 1) > 0

\* The order in which url.Values.Encode emits the keys the facades set.
SortedKeys == <<"customer_id", "from", "metric_id", "plan_id", "status", "to">>

\* url.Values.Encode(): key=value pairs, escaped, sorted by key, joined by &.
RECURSIVE EncodeFrom(_, _)
EncodeFrom(q, i) ==
    IF i > Len(SortedKeys) THEN ""
    ELSE LET k == SortedKeys[i]
             rest == EncodeFrom(q, i + 1)
         IN  IF k \notin DOMAIN q THEN rest
             ELSE QueryEscape(k) \o "=" \o QueryEscape(q[k]) \o
                  (IF rest = "" THEN "" ELSE "&" \o rest)

Encode(q) == EncodeFrom(q, 1)

\* url.ParseQuery(raw), as URL.Query() uses it: the pairs that fail to
\* unescape are dropped; each key maps to the list of its values.
RECURSIVE ParsePairs(_, _)
ParsePairs(pairs, m) ==
    IF pairs = <<>> THEN m
    ELSE LET kv == Cut(Head(pairs), "=")
             k == Unescape(kv.before, TRUE)
             v == Unescape(kv.after, TRUE)
             m2 == IF Head(pairs) = "" \/ k.err \/ v.err THEN m
                   ELSE IF k.val \in DOMAIN m
                   THEN [m EXCEPT ![k.val] = Append(@, v.val)]
                   ELSE m @@ (k.val :> <<v.val>>)
         IN  ParsePairs(Tail(pairs), m2)

ParseQuery(raw) == ParsePairs(Split(raw, "&"), <<>>)

\* url.Parse of the part of a URL that follows the host: the fragment is cut
\* off, the rest must hold no control character, its query is kept raw and
\* its path is unescaped; then the fragment is unescaped.
ParsePath(target) ==
    LET uf == Cut(target, "#")
        pq == Cut(uf.before, "?")
        path == Unescape(pq.before, FALSE)
        frag == Unescape(uf.after, FALSE)
    IN  [err |-> ContainsCTL(uf.before) \/ path.err \/ frag.err,
         path |-> path.val,
         hasQuery |-> pq.found,
         rawQuery |-> pq.after]

\* What the server's handler sees of a request: r.URL.Path, r.URL.RawQuery
\* and r.URL.Query().
Received(target) ==
    LET u == ParsePath(target)
    IN  [path |-> u.path, hasQuery |-> u.hasQuery, rawQuery |-> u.rawQuery,
         query |-> ParseQuery(u.rawQuery)]

(***************************************************************************)
(* Arguments of a facade call.                                             *)
(***************************************************************************)
\* Resource IDs: a plain one, one with a control character (url.Parse
\* rejects the URL), the empty string, and IDs with characters that have a
\* meaning in a URL.
IDs == {"cust-abc", "bad\nid", "", "a/b", "a&b=c", "a%zz"}

BadIDs == {"bad\nid"}

\* The second ID of the payout account methods.
AccountIDs == {"acct-1"}

IDLists(f) ==
    CASE f.nids = 0 -> {<<>>}
      [] f.nids = 1 -> {<<i>> : i \in IDs}
      [] OTHER -> {<<i, j>> : i \in IDs, j \in AccountIDs}

\* fmt.Sprintf of the method's path pattern.
Path(f, ids) ==
    CASE f.nids = 0 -> f.pre
      [] f.nids = 1 -> f.pre \o ids[1] \o f.mid
      [] OTHER -> f.pre \o ids[1] \o f.mid \o ids[2]

\* time.Time values of March 2026, on the hour: day, hour, offset of the
\* zone in hours east of UTC, nanoseconds.
Times ==
    {[nil |-> FALSE, day |-> 2, hour |-> 0, off |-> 1, nsec |-> 0],
     [nil |-> FALSE, day |-> 1, hour |-> 12, off |-> 0, nsec |-> 500]}

\* A nil *time.Time.
NilTime == [nil |-> TRUE]

\* t.UTC()
UTC(t) ==
    IF t.hour - t.off < 0
    THEN [t EXCEPT !.day = t.day - 1, !.hour = t.hour - t.off + 24, !.off = 0]
    ELSE [t EXCEPT !.hour = t.hour - t.off, !.off = 0]

TwoDigits(n) ==
    LET d == <<"0", "1", "2", "3", "4", "5", "6", "7", "8", "9">>
    IN  d[(n \div 10) + 1] \o d[(n % 10) + 1]

\* t.Format(time.RFC3339): whole seconds, "Z" for a zero offset.
FormatRFC3339(t) ==
    "2026-03-" \o TwoDigits(t.day) \o "T" \o TwoDigits(t.hour) \o ":00:00" \o
    (IF t.off = 0 THEN "Z" ELSE "+" \o TwoDigits(t.off) \o ":00")

\* The parameter structs of the list methods that take one.
ListSubscriptionsParams ==
    [CustomerID : {"", "cust-abc", "a&b=c d"}, PlanID : {"", "plan-1"},
     Status : {"", "active"}]

ListInvoicesParams ==
    [Status : {"", "draft"}, CustomerID : {"", "cust-abc", "a&b=c d"}]

UsageParams ==
    [CustomerID : {"", "cust-abc"}, MetricID : {"", "m-1"},
     From : {NilTime} \cup Times,
     To : {NilTime, [nil |-> FALSE, day |-> 1, hour |-> 12, off |-> 0, nsec |-> 500]}]

\* q.Set(key, value) on url.Values.
Set(q, key, value) == [k \in DOMAIN q \cup {key} |-> IF k = key THEN value ELSE q[k]]

\* The url.Values that SubscriptionService.List fills.
SubscriptionListValues(params) ==
    LET q1 == IF params.CustomerID # "" THEN Set(<<>>, "customer_id", params.CustomerID) ELSE <<>>
        q2 == IF params.PlanID # "" THEN Set(q1, "plan_id", params.PlanID) ELSE q1
    IN  IF params.Status # "" THEN Set(q2, "status", params.Status) ELSE q2

\* The url.Values that InvoiceService.List fills.
InvoiceListValues(params) ==
    LET q1 == IF params.Status # "" THEN Set(<<>>, "status", params.Status) ELSE <<>>
    IN  IF params.CustomerID # "" THEN Set(q1, "customer_id", params.CustomerID) ELSE q1

\* As UsageQueryValues, had the bounds been sent whether set or not.
UsageQueryValuesUnconditional(params) ==
    LET q1 == IF params.CustomerID # "" THEN Set(<<>>, "customer_id", params.CustomerID) ELSE <<>>
        q2 == IF params.MetricID # "" THEN Set(q1, "metric_id", params.MetricID) ELSE q1
        q3 == Set(q2, "from", IF params.From.nil THEN "" ELSE FormatRFC3339(UTC(params.From)))
    IN  Set(q3, "to", IF params.To.nil THEN "" ELSE FormatRFC3339(UTC(params.To)))

\* The url.Values that UsageService.Query fills.
UsageQueryValues(params) ==
    LET q1 == IF params.CustomerID # "" THEN Set(<<>>, "customer_id", params.CustomerID) ELSE <<>>
        q2 == IF params.MetricID # "" THEN Set(q1, "metric_id", params.MetricID) ELSE q1
        q3 == IF ~params.From.nil THEN Set(q2, "from", FormatRFC3339(UTC(params.From))) ELSE q2
    IN  IF ~params.To.nil THEN Set(q3, "to", FormatRFC3339(UTC(params.To))) ELSE q3

\* The methods that take a parameter struct.
TakesParams(f) ==
    \/ f.svc \in {"Subscriptions", "Invoices"} /\ f.op = "List"
    \/ f.svc = "Usage" /\ f.op = "Query"

\* path = path + "?" + q.Encode(), if len(q) > 0
WithQuery(path, q) == IF DOMAIN q # {} THEN path \o "?" \o Encode(q) ELSE path

\* Request structs, by what json.Marshal makes of them: Metadata stands for
\* the json.RawMessage and map[string]any members.
NoReq == [Name |-> "", Metadata |-> "none"]

\* The path that the method hands to do.
Target(f, ids, req) ==
    CASE f.svc = "Subscriptions" /\ f.op = "List" ->
            WithQuery(Path(f, ids), SubscriptionListValues(req.Params))
      [] f.svc = "Invoices" /\ f.op = "List" ->
            WithQuery(Path(f, ids), InvoiceListValues(req.Params))
      [] f.svc = "Usage" /\ f.op = "Query" ->
            WithQuery(Path(f, ids), UsageQueryValues(req.Params))
      [] OTHER -> Path(f, ids)

Params(f) ==
    CASE f.svc = "Subscriptions" -> ListSubscriptionsParams
      [] f.svc = "Invoices" -> ListInvoicesParams
      [] OTHER -> UsageParams

\* IngestEvent values.  Properties is the map[string]any member: nil, a map
\* of strings, or a map holding a value json.Marshal rejects.
Event(key, props) ==
    [EventName |-> "api_call", CustomerID |-> "cust-abc", IdempotencyKey |-> key,
     Timestamp |-> [nil |-> FALSE, day |-> 1, hour |-> 12, off |-> 0, nsec |-> 500],
     Properties |-> props]

\* The batches handed to Ingest: none, one, two, two in the other order, a
\* repeated idempotency key, an event that cannot be marshalled.
IngestRequests ==
    {[Events |-> b] : b \in
        {<<>>,
         <<Event("key-1", "nil")>>,
         <<Event("key-1", "nil"), Event("key-2", "region")>>,
         <<Event("key-2", "region"), Event("key-1", "nil")>>,
         <<Event("key-1", "nil"), Event("key-1", "nil")>>,
         <<Event("key-1", "nil"), Event("key-3", "invalid")>>}}

\* A *string: nil, or a pointer to s.
NilString == [nil |-> TRUE]

StringPtr(s) == [nil |-> FALSE, s |-> s]

\* The arguments of StartReplay.
ReplayArgs ==
    [From : Times,
     To : {[nil |-> FALSE, day |-> 2, hour |-> 0, off |-> 1, nsec |-> 0]},
     EventName : {NilString, StringPtr("api_call"), StringPtr("")}]

Reqs(f) ==
    CASE TakesParams(f) ->
            {[Name |-> "", Metadata |-> "none", Params |-> p] : p \in Params(f)}
      [] f.svc = "Events" /\ f.op = "Ingest" -> IngestRequests
      [] f.svc = "Events" /\ f.op = "StartReplay" -> ReplayArgs
      [] f.body = "nil" -> {NoReq}
      [] f.body = "safe" -> {[Name |-> "Acme Corp", Metadata |-> "none"]}
      [] OTHER -> {[Name |-> "Acme Corp", Metadata |-> m] : m \in {"none", "invalid"}}

\* The last width decimal digits of n.
RECURSIVE Digits(_, _)
Digits(n, width) ==
    IF width = 0 THEN "" ELSE Digits(n \div 10, width - 1) \o Digit[(n % 10) + 1]

\* The fraction that RFC3339Nano prints for nsec nanoseconds: the nine
\* digits of nsec without the trailing zeros, nothing for zero.
RECURSIVE Fraction(_, _)
Fraction(nsec, width) ==
    IF nsec = 0 \/ width = 0 THEN ""
    ELSE IF nsec % 10 = 0 THEN Fraction(nsec \div 10, width - 1)
    ELSE Digits(nsec, width)

\* time.Time.MarshalJSON: t.Format(time.RFC3339Nano)
FormatRFC3339Nano(t) ==
    "2026-03-" \o TwoDigits(t.day) \o "T" \o TwoDigits(t.hour) \o ":00:00" \o
    (IF t.nsec = 0 THEN ""
     ELSE "." \o Fraction(t.nsec, 9)) \o
    (IF t.off = 0 THEN "Z" ELSE "+" \o TwoDigits(t.off) \o ":00")

\* json.Marshal of the Properties of an event.
MarshalProperties(props) ==
    CASE props = "nil" -> JNull
      [] props = "region" -> JObj("region" :> JStr("eu"))
      [] OTHER -> Invalid

\* json.Marshal of one IngestEvent.
MarshalEvent(e) ==
    JObj(("event_name" :> JStr(e.EventName)) @@
         ("customer_id" :> JStr(e.CustomerID)) @@
         ("idempotency_key" :> JStr(e.IdempotencyKey)) @@
         ("timestamp" :> JStr(FormatRFC3339Nano(e.Timestamp))) @@
         ("properties" :> MarshalProperties(e.Properties)))

\* The events whose idempotency key did not occur earlier in the batch.
RECURSIVE Deduplicated(_, _)
Deduplicated(events, seen) ==
    IF events = <<>> THEN <<>>
    ELSE IF Head(events).IdempotencyKey \in seen
    THEN Deduplicated(Tail(events), seen)
    ELSE <<Head(events)>> \o
         Deduplicated(Tail(events), seen \cup {Head(events).IdempotencyKey})

\* As MarshalEvents, had the client dropped repeated idempotency keys.
MarshalEventsDeduplicated(events) ==
    IF events = <<>> THEN JNull
    ELSE JArr([i \in DOMAIN Deduplicated(events, {}) |->
                  MarshalEvent(Deduplicated(events, {})[i])])

\* json.Marshal of the Events slice of an IngestRequest: null for the nil
\* slice, else the events in order.
MarshalEvents(events) ==
    IF events = <<>> THEN JNull
    ELSE JArr([i \in DOMAIN events |-> MarshalEvent(events[i])])

\* As StartReplayBody, had an empty event name been left out.
StartReplayBodyNonEmptyName(replay) ==
    LET body == ("from" :> JStr(FormatRFC3339(replay.From))) @@
                ("to" :> JStr(FormatRFC3339(replay.To)))
    IN  IF ~replay.EventName.nil /\ replay.EventName.s # ""
        THEN body @@ ("event_name" :> JStr(replay.EventName.s))
        ELSE body

\* The map[string]any that StartReplay passes to do as the body.
StartReplayBody(replay) ==
    LET body == ("from" :> JStr(FormatRFC3339(replay.From))) @@
                ("to" :> JStr(FormatRFC3339(replay.To)))
    IN  IF ~replay.EventName.nil
        THEN body @@ ("event_name" :> JStr(replay.EventName.s))
        ELSE body

\* json.Marshal(body): the JSON document, or an error.
Marshal(req) ==
    IF "Events" \in DOMAIN req
    THEN [err |-> \E i \in DOMAIN req.Events : req.Events[i].Properties = "invalid",
          doc |-> JObj("events" :> MarshalEvents(req.Events))]
    ELSE IF "EventName" \in DOMAIN req
    THEN [err |-> FALSE, doc |-> JObj(StartReplayBody(req))]
    ELSE [err |-> req.Metadata = "invalid", doc |-> JObj("name" :> JStr(req.Name))]

\* States of a context: nil, not done, cancelled, past its deadline.
CtxStates == {"nil", "active", "canceled", "deadline"}

CtxDone(c) == c \in {"canceled", "deadline"}

\* ctx.Err() of a done context.
CtxErr(c) ==
    IF c = "canceled" THEN Plain("context canceled")
    ELSE Plain("context deadline exceeded")

\* Failures of the HTTP executor that are not caused by the context.
TransportErrors == {Plain("connection refused"), Plain("no such host")}

\* Failures of io.ReadAll that are not caused by the context.
ReadErrors == {Plain("unexpected EOF")}

\* http.Client.Do reports every failure as a *url.Error around the cause.
URLError(cause) == Wrap("url.Error", cause)

(***************************************************************************)
(* The request built by do.                                                *)
(***************************************************************************)
NoRequest == [built |-> FALSE]

\* As BuildFails, had the request been built without its context.
BuildFailsOnURLOnly(c, cx, target) ==
    \/ c.baseURL \in BadBaseURLs
    \/ ParsePath(target).err

\* http.NewRequestWithContext fails on a nil context and on a URL that
\* url.Parse rejects: a control character in it, or a "%" in its path that
\* does not start an escape.
BuildFails(c, cx, target) ==
    \/ cx = "nil"
    \/ c.baseURL \in BadBaseURLs
    \/ ParsePath(target).err

\* As BuildRequest, had Content-Type been set for POST requests only.
BuildRequestContentTypeOnPost(c, f, ids, req) ==
    [built |-> TRUE,
     method |-> f.method,
     url |-> c.baseURL \o Target(f, ids, req),
     path |-> Target(f, ids, req),
     header |-> [Authorization |-> "Bearer " \o c.apiKey,
                 ContentType |-> IF f.method = "POST" THEN "application/json" ELSE "",
                 Accept |-> "application/json"],
     hasBody |-> f.body # "nil",
     body |-> IF f.body = "nil" THEN Absent ELSE Marshal(req).doc]

\* As BuildRequest, had do also sent the API key as a query parameter.
BuildRequestKeyInQuery(c, f, ids, req) ==
    [built |-> TRUE,
     method |-> f.method,
     url |-> c.baseURL \o Target(f, ids, req) \o "?api_key=" \o c.apiKey,
     path |-> Target(f, ids, req),
     header |-> [Authorization |-> "Bearer " \o c.apiKey,
                 ContentType |-> "application/json",
                 Accept |-> "application/json"],
     hasBody |-> f.body # "nil",
     body |-> IF f.body = "nil" THEN Absent ELSE Marshal(req).doc]

\* http.NewRequestWithContext and the three req.Header.Set calls of do.
BuildRequest(c, f, ids, req) ==
    [built |-> TRUE,
     method |-> f.method,
     url |-> c.baseURL \o Target(f, ids, req),
     path |-> Target(f, ids, req),
     header |-> [Authorization |-> "Bearer " \o c.apiKey,
                 ContentType |-> "application/json",
                 Accept |-> "application/json"],
     hasBody |-> f.body # "nil",
     body |-> IF f.body = "nil" THEN Absent ELSE Marshal(req).doc]

MarshalError == Wrap("monigo: marshal request body", Plain("json: marshal error"))

BuildError == Wrap("monigo: build request", Plain("net/http: bad request"))

\* As ExecuteError, had the failure been reported as an APIError.
ExecuteErrorAsAPIError(cause) == APIError(0, "execute request", EmptyMap)

\* As ExecuteError, with %v for %w: the cause is no longer wrapped.
ExecuteErrorOpaque(cause) == Wrap("monigo: execute request", Plain("request failed"))

ExecuteError(cause) == Wrap("monigo: execute request", URLError(cause))

ReadError(cause) == Wrap("monigo: read response body", cause)

DecodeError == Wrap("monigo: decode response", Plain("json: decode error"))

(***************************************************************************)
(* Responses.                                                              *)
(***************************************************************************)
NoResp == [received |-> FALSE]

Statuses == {200, 201, 204, 304, 400, 401, 402, 404, 429, 500}

CommonBodies ==
    {Body("", Invalid),
     Body("<html>Bad Gateway</html>", Invalid),
     Body("null", JNull),
     Body("\"oops\"", JStr("oops")),
     Body("{}", JObj(EmptyMap)),
     Body("{\"message\":\"deleted\"}", JObj("message" :> JStr("deleted"))),
     Body("{\"error\":\"not found\"}", JObj("error" :> JStr("not found"))),
     Body("{\"Error\":\"upper\"}", JObj("Error" :> JStr("upper"))),
     Body("{\"error\":\"validation failed\",\"details\":{\"email\":\"invalid\"}}",
          JObj(("error" :> JStr("validation failed")) @@
               ("details" :> JObj("email" :> JStr("invalid"))))),
     Body("{\"error\":\"teapot\",\"StatusCode\":200,\"details\":{}}",
          JObj(("error" :> JStr("teapot")) @@ ("StatusCode" :> JNum(200)) @@
               ("details" :> JObj(EmptyMap)))),
     Body("{\"error\":5,\"details\":{\"a\":\"b\"}}",
          JObj(("error" :> JNum(5)) @@ ("details" :> JObj("a" :> JStr("b"))))),
     Body("{\"error\":\"e\",\"details\":{\"a\":1}}",
          JObj(("error" :> JStr("e")) @@ ("details" :> JObj("a" :> JNum(1)))))}

WrapperBodies(key) ==
    {Body("{\"" \o key \o "\":{\"id\":\"r-1\"}}",
          JObj(key :> JObj("id" :> JStr("r-1")))),
     Body("{\"" \o key \o "\":\"r-1\"}", JObj(key :> JStr("r-1"))),
     Body("{\"" \o key \o "\":{\"id\":5}}", JObj(key :> JObj("id" :> JNum(5)))),
     Body("{\"other\":{\"id\":\"r-1\"}}", JObj("other" :> JObj("id" :> JStr("r-1"))))}

ListBodies(key) ==
    {Body("{\"" \o key \o "\":[{\"id\":\"r-1\"}],\"count\":1}",
          JObj((key :> JArr(<<JObj("id" :> JStr("r-1"))>>)) @@ ("count" :> JNum(1)))),
     Body("{\"" \o key \o "\":{\"id\":\"r-1\"},\"count\":1}",
          JObj((key :> JObj("id" :> JStr("r-1"))) @@ ("count" :> JNum(1)))),
     Body("{\"count\":\"one\"}", JObj("count" :> JStr("one")))}

IngestBodies ==
    {Body("{\"ingested\":[\"key-1\"],\"duplicates\":[\"key-2\"]}",
          JObj(("ingested" :> JArr(<<JStr("key-1")>>)) @@
               ("duplicates" :> JArr(<<JStr("key-2")>>)))),
     Body("{\"ingested\":[\"key-2\",\"key-1\"],\"duplicates\":[]}",
          JObj(("ingested" :> JArr(<<JStr("key-2"), JStr("key-1")>>)) @@
               ("duplicates" :> JArr(<<>>)))),
     Body("{\"ingested\":[],\"duplicates\":[\"key-1\",\"key-1\"]}",
          JObj(("ingested" :> JArr(<<>>)) @@
               ("duplicates" :> JArr(<<JStr("key-1"), JStr("key-1")>>)))),
     Body("{\"ingested\":\"key-1\"}", JObj("ingested" :> JStr("key-1")))}

\* The bodies a server may answer a call of facade method f with.
RespBodies(f) ==
    CommonBodies \cup
    CASE f.out = "wrapper" -> WrapperBodies(f.key)
      [] f.out = "list" -> ListBodies(f.key)
      [] f.out = "ingest" -> IngestBodies
      [] OTHER -> {}

AllBodies == UNION {RespBodies(f) : f \in Facades}

(***************************************************************************)
(* The outcome of do, once status and body of the response are known.      *)
(***************************************************************************)
\* What the facade methods return for "no result".
Nil == [kind |-> "nil"]

\* The zero value of a method's decode target.
Zero(f) ==
    CASE f.out = "wrapper" -> [kind |-> "resource", ID |-> ""]
      [] f.out = "list" -> [kind |-> "list", Items |-> <<>>, Count |-> 0]
      [] f.out = "ingest" -> [kind |-> "ingest", Ingested |-> <<>>, Duplicates |-> <<>>]
      [] OTHER -> Nil

\* The status from which a response is an API error.
ErrorStatus == 400

\* do: if resp.StatusCode >= 400 { ... return apiErr }
ErrorResponse(status, body) ==
    LET u == UnmarshalAPIError(body, APIError(status, "", EmptyMap))
    IN  IF u.err THEN [u.e EXCEPT !.Message = body.raw] ELSE u.e

\* As ShouldDecode, without the test of the body's length.
ShouldDecodeAnyBody(f, body) == f.out # "none"

\* do: if out != nil && len(respBody) > 0
ShouldDecode(f, body) == f.out # "none" /\ body.raw # ""

\* json.Unmarshal(respBody, out) for the decode target of method f.
UnmarshalOut(body, f) ==
    LET p == body.parse IN
    CASE p.t = "invalid" -> [err |-> TRUE, val |-> Zero(f)]
      [] p.t = "null" -> [err |-> FALSE, val |-> Zero(f)]
      [] p.t = "object" /\ f.out = "wrapper" ->
            LET r == DecodeResource(Field(p.f, f.key), ZeroResource)
            IN  [err |-> r.err, val |-> [kind |-> "resource", ID |-> r.val.ID]]
      [] p.t = "object" /\ f.out = "list" ->
            LET items == DecodeResourceList(Field(p.f, f.key), <<>>)
                count == DecodeInt(Field(p.f, "count"), 0)
            IN  [err |-> items.err \/ count.err,
                 val |-> [kind |-> "list", Items |-> items.val, Count |-> count.val]]
      [] p.t = "object" /\ f.out = "ingest" ->
            LET ing == DecodeStrList(Field(p.f, "ingested"), <<>>)
                dup == DecodeStrList(Field(p.f, "duplicates"), <<>>)
            IN  [err |-> ing.err \/ dup.err,
                 val |-> [kind |-> "ingest", Ingested |-> ing.val, Duplicates |-> dup.val]]
      [] OTHER -> [err |-> TRUE, val |-> Zero(f)]

\* As Respond, with only the 4xx statuses taken for errors.
RespondClientErrorsOnly(status, body, f) ==
    IF status \in 400..499
    THEN [err |-> ErrorResponse(status, body), decoded |-> FALSE, out |-> Zero(f)]
    ELSE IF ShouldDecode(f, body)
    THEN LET u == UnmarshalOut(body, f)
         IN  [err |-> IF u.err THEN DecodeError ELSE NoErr,
              decoded |-> TRUE, out |-> u.val]
    ELSE [err |-> NoErr, decoded |-> FALSE, out |-> Zero(f)]

\* As Respond, with the error of json.Unmarshal(respBody, out) dropped.
RespondIgnoringDecodeError(status, body, f) ==
    IF status >= ErrorStatus
    THEN [err |-> ErrorResponse(status, body), decoded |-> FALSE, out |-> Zero(f)]
    ELSE IF ShouldDecode(f, body)
    THEN [err |-> NoErr, decoded |-> TRUE, out |-> UnmarshalOut(body, f).val]
    ELSE [err |-> NoErr, decoded |-> FALSE, out |-> Zero(f)]

\* do from the status check on: the error it returns, whether it ran the
\* decoder, and the content of the decode target afterwards.
Respond(status, body, f) ==
    IF status >= ErrorStatus
    THEN [err |-> ErrorResponse(status, body), decoded |-> FALSE, out |-> Zero(f)]
    ELSE IF ShouldDecode(f, body)
    THEN LET u == UnmarshalOut(body, f)
         IN  [err |-> IF u.err THEN DecodeError ELSE NoErr,
              decoded |-> TRUE, out |-> u.val]
    ELSE [err |-> NoErr, decoded |-> FALSE, out |-> Zero(f)]

\* As FacadeResult, had the method returned the decode target on error too.
FacadeResultOnError(f, e, out) ==
    IF f.out = "none" THEN Nil ELSE out

\* The facade method's first return value: nil on error, else the target.
FacadeResult(f, e, out) ==
    IF e.kind # "nil" \/ f.out = "none" THEN Nil ELSE out


(***************************************************************************)
(* The state machine of one facade call.                                   *)
(***************************************************************************)
NoCall == [made |-> FALSE]

Init ==
    /\ args = NoArgs
    /\ calls = NoCalls
    /\ main = NoMain
    /\ text = NoText
    /\ client \in {New(k, opts) : k \in APIKeys, opts \in OptionLists}
    /\ pc = "idle"
    /\ call = NoCall
    /\ ctx = "active"
    /\ request = NoRequest
    /\ resp = NoResp
    /\ sends = 0
    /\ decoded = FALSE
    /\ result = Nil
    /\ err = NoErr
    /\ verdict = <<>>

\* As Call, had do replaced a nil executor of the client by a default one.
CallLazyExecutor(f, ids, req, cx) ==
    /\ pc = "idle"
    /\ f.svc \in DOMAIN client.services
    /\ call' = [made |-> TRUE, f |-> f, ids |-> ids, req |-> req, ctx0 |-> cx]
    /\ ctx' = cx
    /\ resp' = NoResp
    /\ decoded' = FALSE
    /\ result' = Nil
    /\ IF f.body # "nil" /\ Marshal(req).err
       THEN /\ pc' = "done"
            /\ err' = MarshalError
            /\ request' = NoRequest
            /\ sends' = 0
       ELSE IF BuildFails(client.services[f.svc], cx, Target(f, ids, req))
       THEN /\ pc' = "done"
            /\ err' = BuildError
            /\ request' = NoRequest
            /\ sends' = 0
       ELSE /\ request' = BuildRequest(client.services[f.svc], f, ids, req)
            /\ sends' = sends + 1
            /\ IF client.services[f.svc].httpClient = "nil"
               THEN pc' = "awaiting" /\ err' = NoErr
               ELSE IF client.services[f.svc].apiKey \in BadAPIKeys
               THEN pc' = "done" /\ err' = ExecuteError(InvalidHeader)
               ELSE IF CtxDone(cx)
               THEN pc' = "done" /\ err' = ExecuteError(CtxErr(cx))
               ELSE pc' = "awaiting" /\ err' = NoErr
    /\ client' = IF client.httpClient = "nil"
                 THEN [client EXCEPT !.httpClient = "default"]
                 ELSE client
    /\ UNCHANGED <<calls, main, text, args, verdict>>

\* A facade method is called: it composes the path and calls do, which
\* marshals the body, builds the request, sets the headers and invokes the
\* HTTP executor.  The executor refuses a request with an invalid header
\* value, and then a context that is already done.
Call(f, ids, req, cx) ==
    /\ pc = "idle"
    /\ f.svc \in DOMAIN client.services
    /\ call' = [made |-> TRUE, f |-> f, ids |-> ids, req |-> req, ctx0 |-> cx]
    /\ ctx' = cx
    /\ resp' = NoResp
    /\ decoded' = FALSE
    /\ result' = Nil
    /\ IF f.body # "nil" /\ Marshal(req).err
       THEN /\ pc' = "done"
            /\ err' = MarshalError
            /\ request' = NoRequest
            /\ sends' = 0
       ELSE IF BuildFails(client.services[f.svc], cx, Target(f, ids, req))
       THEN /\ pc' = "done"
            /\ err' = BuildError
            /\ request' = NoRequest
            /\ sends' = 0
       ELSE /\ request' = BuildRequest(client.services[f.svc], f, ids, req)
            /\ sends' = sends + 1
            /\ IF client.services[f.svc].httpClient = "nil"
               THEN pc' = "panicked" /\ err' = NoErr
               ELSE IF client.services[f.svc].apiKey \in BadAPIKeys
               THEN pc' = "done" /\ err' = ExecuteError(InvalidHeader)
               ELSE IF CtxDone(cx)
               THEN pc' = "done" /\ err' = ExecuteError(CtxErr(cx))
               ELSE pc' = "awaiting" /\ err' = NoErr
    /\ UNCHANGED <<calls, main, text, args, client, verdict>>

\* httpClient.Do returns a response: its status line and headers arrived.
Response(status) ==
    /\ pc = "awaiting"
    /\ resp' = [received |-> TRUE, status |-> status, read |-> FALSE]
    /\ pc' = "reading"
    /\ UNCHANGED <<calls, main, text, args, client, call, ctx, request, sends, decoded, result, err, verdict>>

\* httpClient.Do returns an error of the network.
TransportFail(cause) ==
    /\ pc = "awaiting"
    /\ err' = ExecuteError(cause)
    /\ pc' = "done"
    /\ UNCHANGED <<calls, main, text, args, client, call, ctx, request, resp, sends, decoded, result, verdict>>

\* httpClient.Do returns because the context is done.
Abort ==
    /\ pc = "awaiting"
    /\ CtxDone(ctx)
    /\ err' = ExecuteError(CtxErr(ctx))
    /\ pc' = "done"
    /\ UNCHANGED <<calls, main, text, args, client, call, ctx, request, resp, sends, decoded, result, verdict>>

\* As ReadAll, had do sent the request again on a 429 response.
ReadAllRetrying(body) ==
    /\ pc = "reading"
    /\ body \in RespBodies(call.f)
    /\ IF resp.status = 429 /\ sends < 3
       THEN /\ sends' = sends + 1
            /\ resp' = NoResp
            /\ pc' = "awaiting"
            /\ UNCHANGED <<decoded, result, err>>
       ELSE /\ LET o == Respond(resp.status, body, call.f)
               IN  /\ err' = o.err
                   /\ decoded' = o.decoded
                   /\ result' = FacadeResult(call.f, o.err, o.out)
            /\ resp' = [received |-> TRUE, status |-> resp.status,
                        read |-> TRUE, body |-> body]
            /\ pc' = "done"
            /\ sends' = sends
    /\ UNCHANGED <<calls, main, text, args, client, call, ctx, request, verdict>>

\* io.ReadAll returns the whole body; do classifies the status, decodes, and
\* the facade method returns.
ReadAll(body) ==
    /\ pc = "reading"
    /\ body \in RespBodies(call.f)
    /\ LET o == Respond(resp.status, body, call.f)
       IN  /\ err' = o.err
           /\ decoded' = o.decoded
           /\ result' = FacadeResult(call.f, o.err, o.out)
    /\ resp' = [received |-> TRUE, status |-> resp.status, read |-> TRUE, body |-> body]
    /\ pc' = "done"
    /\ UNCHANGED <<calls, main, text, args, client, call, ctx, request, sends, verdict>>

\* io.ReadAll fails on the connection.
ReadFail(cause) ==
    /\ pc = "reading"
    /\ err' = ReadError(cause)
    /\ pc' = "done"
    /\ UNCHANGED <<calls, main, text, args, client, call, ctx, request, resp, sends, decoded, result, verdict>>

\* io.ReadAll fails because the context is done.
ReadAbort ==
    /\ pc = "reading"
    /\ CtxDone(ctx)
    /\ err' = ReadError(CtxErr(ctx))
    /\ pc' = "done"
    /\ UNCHANGED <<calls, main, text, args, client, call, ctx, request, resp, sends, decoded, result, verdict>>

\* The owner of the context cancels it, or its deadline passes, while the
\* call is in flight.
Cancel(how) ==
    /\ pc \in {"awaiting", "reading"}
    /\ ctx = "active"
    /\ ctx' = how
    /\ UNCHANGED <<calls, main, text, args, client, pc, call, request, resp, sends, decoded, result, err, verdict>>

\* The caller has the return values; the next call may start.
Return ==
    /\ pc = "done"
    /\ pc' = "idle"
    /\ call' = NoCall
    /\ ctx' = "active"
    /\ request' = NoRequest
    /\ resp' = NoResp
    /\ sends' = 0
    /\ decoded' = FALSE
    /\ result' = Nil
    /\ err' = NoErr
    /\ UNCHANGED <<calls, main, text, args, client, verdict>>

Next ==
    \/ \E f \in Facades : \E ids \in IDLists(f) : \E req \in Reqs(f) :
         \E cx \in CtxStates : Call(f, ids, req, cx)
    \/ \E status \in Statuses : Response(status)
    \/ \E cause \in TransportErrors : TransportFail(cause)
    \/ Abort
    \/ \E body \in AllBodies : ReadAll(body)
    \/ \E cause \in ReadErrors : ReadFail(cause)
    \/ ReadAbort
    \/ \E how \in {"canceled", "deadline"} : Cancel(how)
    \/ Return

Spec == Init /\ [][Next]_vars

(***************************************************************************)
(* Construction observed: New is called with recorded arguments, then the  *)
(* facade methods of the client it returned are called.                    *)
(***************************************************************************)
\* The client before New has run.
NoClient == [apiKey |-> "", baseURL |-> "", httpClient |-> "nil", services |-> <<>>]

InitNew ==
    /\ args \in {[observed |-> TRUE, apiKey |-> a.apiKey, opts |-> a.opts] : a \in NewArgs}
    /\ calls = NoCalls
    /\ main = NoMain
    /\ text = NoText
    /\ client = NoClient
    /\ pc = "new"
    /\ call = NoCall
    /\ ctx = "active"
    /\ request = NoRequest
    /\ resp = NoResp
    /\ sends = 0
    /\ decoded = FALSE
    /\ result = Nil
    /\ err = NoErr
    /\ verdict = <<>>

\* New(apiKey, opts...) returns.
Construct ==
    /\ pc = "new"
    /\ client' = New(args.apiKey, args.opts)
    /\ pc' = "idle"
    /\ UNCHANGED <<calls, main, text, args, call, ctx, request, resp, sends, decoded, result, err, verdict>>

NextNew ==
    \/ Construct
    \/ \E f \in Facades : \E ids \in IDLists(f) : \E req \in Reqs(f) :
         \E cx \in CtxStates : Call(f, ids, req, cx)
    \/ Return

SpecNew == InitNew /\ [][NextNew]_vars

\* A method of PortalTokenService is called on a receiver s whose field
\* client points to the client: it composes the path and calls s.client.do.
\* New binds no such receiver to the client it returns.
PortalTokenCall(f, ids, req, cx) ==
    /\ pc = "idle"
    /\ f \in PortalTokenFacades
    /\ call' = [made |-> TRUE, f |-> f, ids |-> ids, req |-> req, ctx0 |-> cx]
    /\ ctx' = cx
    /\ resp' = NoResp
    /\ decoded' = FALSE
    /\ result' = Nil
    /\ IF f.body # "nil" /\ Marshal(req).err
       THEN /\ pc' = "done"
            /\ err' = MarshalError
            /\ request' = NoRequest
            /\ sends' = 0
       ELSE IF BuildFails(Config(client), cx, Target(f, ids, req))
       THEN /\ pc' = "done"
            /\ err' = BuildError
            /\ request' = NoRequest
            /\ sends' = 0
       ELSE /\ request' = BuildRequest(Config(client), f, ids, req)
            /\ sends' = sends + 1
            /\ IF client.httpClient = "nil"
               THEN pc' = "panicked" /\ err' = NoErr
               ELSE IF client.apiKey \in BadAPIKeys
               THEN pc' = "done" /\ err' = ExecuteError(InvalidHeader)
               ELSE IF CtxDone(cx)
               THEN pc' = "done" /\ err' = ExecuteError(CtxErr(cx))
               ELSE pc' = "awaiting" /\ err' = NoErr
    /\ UNCHANGED <<calls, main, text, args, client, verdict>>

NextPortalTokens ==
    \/ \E f \in PortalTokenFacades : \E ids \in IDLists(f) : \E req \in Reqs(f) :
         \E cx \in CtxStates : PortalTokenCall(f, ids, req, cx)
    \/ \E status \in Statuses : Response(status)
    \/ \E cause \in TransportErrors : TransportFail(cause)
    \/ Abort
    \/ \E body \in AllBodies : ReadAll(body)
    \/ \E cause \in ReadErrors : ReadFail(cause)
    \/ ReadAbort
    \/ \E how \in {"canceled", "deadline"} : Cancel(how)
    \/ Return

\* Calls of the PortalTokenService methods on a client New returned, from
\* the request to the returned result or error.
SpecPortalTokens == Init /\ [][NextPortalTokens]_vars

(***************************************************************************)
(* Classification of error values by the seven predicates.                 *)
(***************************************************************************)
MaxClassify == 2    \* times the predicates are applied to one error value

ClassStatuses == {0, 200, 400, 401, 402, 403, 404, 409, 422, 429, 500}

DetailsChoices ==
    {EmptyMap, "email" :> "invalid",
     ("name" :> "required") @@ ("email" :> "") @@ ("a" :> "b c")}

\* Messages of an APIError: the server's text, none, a raw body.
Messages == {"msg", "", "<html>Bad Gateway</html>"}

LeafErrors ==
    {APIError(st, m, d) : st \in ClassStatuses, m \in Messages, d \in DetailsChoices}
    \cup {Plain("plain error"), CtxErr("canceled"), NilAPIError}

RECURSIVE Wrapped(_, _)
Wrapped(S, n) ==
    IF n = 0 THEN S
    ELSE S \cup {Wrap("ctx", e) : e \in Wrapped(S, n - 1)}

ErrUniverse == {NoErr} \cup Wrapped(LeafErrors, MaxWrap)

InitErr ==
    /\ args = NoArgs
    /\ calls = NoCalls
    /\ main = NoMain
    /\ text = NoText
    /\ client = New("test_key_abc", <<>>)
    /\ pc = "done"
    /\ call = NoCall
    /\ ctx = "active"
    /\ request = NoRequest
    /\ resp = NoResp
    /\ sends = 0
    /\ decoded = FALSE
    /\ result = Nil
    /\ err \in ErrUniverse
    /\ verdict = <<>>

\* The caller applies each predicate to the error it holds.
Classify ==
    /\ pc = "done"
    /\ Len(verdict) < MaxClassify
    /\ verdict' = Append(verdict, [p \in Predicates |-> Apply(p, err)])
    /\ UNCHANGED <<calls, main, text, args, client, pc, call, ctx, request, resp, sends, decoded, result, err>>

\* The caller holds an *APIError and asks for its text.
Describe ==
    /\ pc = "done"
    /\ err.kind = "api"
    /\ ~text.called
    /\ text' = [called |-> TRUE, s |-> Error(err)]
    /\ UNCHANGED <<args, client, pc, call, ctx, request, resp, sends, decoded,
                   result, err, verdict, calls, main>>

NextErr == Classify \/ Describe

SpecErr == InitErr /\ [][NextErr]_vars


(***************************************************************************)
(* Vocabulary of the properties.                                           *)
(***************************************************************************)
\* The call has returned and a response was read completely.
Answered == pc = "done" /\ resp.received /\ resp.read

Success(status) == status \in 200..299

\* e is the nil error.
IsNil(e) == e.kind = "nil"

\* e is a non-nil error that neither is nor wraps an *APIError.
LocalError(e) == ~IsNil(e) /\ ~As(e).ok

\* errors.Is(e, target) along a chain of wrapped errors.
RECURSIVE Is(_, _)
Is(e, target) ==
    \/ e = target
    \/ e.kind = "wrap" /\ Is(e.inner, target)

\* The error at the end of a chain of wrapped errors.
RECURSIVE Innermost(_)
Innermost(e) == IF e.kind = "wrap" THEN Innermost(e.inner) ELSE e

\* The status each predicate stands for.
MatchStatus(p) ==
    CASE p = "IsNotFound" -> 404
      [] p = "IsUnauthorized" -> 401
      [] p = "IsForbidden" -> 403
      [] p = "IsConflict" -> 409
      [] p = "IsRateLimited" -> 429
      [] p = "IsQuotaExceeded" -> 402
      [] p = "IsValidationError" -> 400

\* The request struct holds a value that json.Marshal rejects.
Unmarshalable(req) ==
    IF "Events" \in DOMAIN req
    THEN \E i \in DOMAIN req.Events : req.Events[i].Properties = "invalid"
    ELSE "Metadata" \in DOMAIN req /\ req.Metadata = "invalid"

\* The body is the error envelope {"error": string, "details"?: mapping}.
IsEnvelope(body) ==
    /\ body.parse.t = "object"
    /\ "error" \in DOMAIN body.parse.f
    /\ body.parse.f["error"].t = "string"
    /\ "details" \in DOMAIN body.parse.f =>
         /\ body.parse.f["details"].t = "object"
         /\ \A k \in DOMAIN body.parse.f["details"].f :
                body.parse.f["details"].f[k].t = "string"

EnvelopeDetails(body) ==
    IF "details" \in DOMAIN body.parse.f
    THEN [k \in DOMAIN body.parse.f["details"].f |-> body.parse.f["details"].f[k].s]
    ELSE EmptyMap

(***************************************************************************)
(* C1 (as stated): every response read by do whose status is outside       *)
(* 200-299 is returned as an APIError carrying that status, never as       *)
(* success and never decoded.                                              *)
(***************************************************************************)
C1_NonSuccessIsAPIError ==
    (Answered /\ ~Success(resp.status)) =>
        /\ err.kind = "api"
        /\ err.StatusCode = resp.status
        /\ result = Nil
        /\ ~decoded

(***************************************************************************)
(* C1 (amended): every response read by do whose status is 400 or above is *)
(* returned as an APIError carrying that status, never as success and      *)
(* never decoded.                                                          *)
(***************************************************************************)
C1_ErrorStatusIsAPIError ==
    (Answered /\ resp.status >= 400) =>
        /\ err.kind = "api"
        /\ err.StatusCode = resp.status
        /\ result = Nil
        /\ ~decoded

C1_Witness ==
    /\ Answered
    /\ resp.status = 500
    /\ call.f.out = "wrapper"
    /\ err.kind = "api"

(***************************************************************************)
(* C2: for a response with status >= 400 whose body is the error envelope, *)
(* the APIError has the HTTP status, the envelope's error string as        *)
(* Message and the envelope's details, in full, as Details.                *)
(***************************************************************************)
C2_EnvelopeIsCopied ==
    (Answered /\ resp.status >= 400 /\ IsEnvelope(resp.body)) =>
        err = APIError(resp.status, resp.body.parse.f["error"].s,
                       EnvelopeDetails(resp.body))

C2_Witness ==
    /\ Answered
    /\ resp.status = 400
    /\ IsEnvelope(resp.body)
    /\ "StatusCode" \in DOMAIN resp.body.parse.f
    /\ err.kind = "api"

(***************************************************************************)
(* C3: a facade call invokes the HTTP executor at most once, and exactly   *)
(* once when the request was built, whatever the outcome; StartReplay      *)
(* sends one POST to the replay collection and nothing else.               *)
(***************************************************************************)
C3_OneSendPerCall ==
    /\ sends <= 1
    /\ pc = "idle" => sends = 0
    /\ pc # "idle" => sends = (IF request.built THEN 1 ELSE 0)
    /\ (pc # "idle" /\ request.built /\ call.f.op = "StartReplay") =>
          /\ request.method = "POST"
          /\ request.url = client.baseURL \o "/v1/events/replay"

C3_Witness ==
    /\ Answered
    /\ call.f.op = "StartReplay"
    /\ resp.status = 429
    /\ sends = 1

(***************************************************************************)
(* C4: each predicate returns false, without panicking, for the nil error, *)
(* for an error that neither is nor wraps an APIError, and for an APIError *)
(* whose status is not the predicate's.                                    *)
(***************************************************************************)
C4_FalseOnNonMatching ==
    \A i \in DOMAIN verdict : \A p \in Predicates :
        (\/ Innermost(err).kind \in {"nil", "plain"}
         \/ /\ Innermost(err).kind = "api"
            /\ Innermost(err).StatusCode # MatchStatus(p))
        => verdict[i][p] = Ret(FALSE)

C4_Witness ==
    /\ verdict # <<>>
    /\ err.kind = "wrap"
    /\ Innermost(err).kind = "plain"

(***************************************************************************)
(* C5: for an error that is or wraps an APIError with status s and details *)
(* d, each predicate is true iff s is its status (and, for                 *)
(* IsValidationError, d is non-empty); so exactly one predicate is true    *)
(* for 400 with details, 401, 402, 403, 404, 409 and 429, none otherwise,  *)
(* and a second application gives the same results.                        *)
(***************************************************************************)
C5_PredicateTable ==
    Innermost(err).kind = "api" =>
        LET s == Innermost(err).StatusCode
            d == Innermost(err).Details
            classified == (s = 400 /\ d # EmptyMap) \/ s \in {401, 402, 403, 404, 409, 429}
        IN  /\ \A i \in DOMAIN verdict :
                /\ \A p \in Predicates :
                      verdict[i][p] =
                          Ret(s = MatchStatus(p) /\ (p = "IsValidationError" => d # EmptyMap))
                /\ Cardinality({p \in Predicates : verdict[i][p].value})
                      = (IF classified THEN 1 ELSE 0)
            /\ \A i, j \in DOMAIN verdict : verdict[i] = verdict[j]

C5_Witness ==
    /\ Len(verdict) = 2
    /\ err.kind = "wrap"
    /\ Innermost(err).kind = "api"
    /\ Innermost(err).StatusCode = 400
    /\ Innermost(err).Details # EmptyMap
    /\ verdict[2]["IsValidationError"] = Ret(TRUE)

(***************************************************************************)
(* C6: when the HTTP executor fails without a response, the call returns a *)
(* non-nil error that is no APIError, every predicate is false for it, and *)
(* nothing is decoded.                                                     *)
(***************************************************************************)
C6_TransportFailureIsLocal ==
    (pc = "done" /\ sends = 1 /\ ~resp.received) =>
        /\ LocalError(err)
        /\ \A p \in Predicates : Apply(p, err) = Ret(FALSE)
        /\ result = Nil
        /\ ~decoded

C6_Witness ==
    /\ pc = "done"
    /\ sends = 1
    /\ ~resp.received
    /\ ctx = "active"
    /\ err = ExecuteError(Plain("connection refused"))

(***************************************************************************)
(* C7: when the request body cannot be marshalled, or the request cannot   *)
(* be built, the call returns a local error that is no APIError and the    *)
(* HTTP executor is not invoked.                                           *)
(***************************************************************************)
C7_LocalFailureSendsNothing ==
    (/\ call.made
     /\ \/ call.f.body # "nil" /\ Unmarshalable(call.req)
        \/ call.ctx0 = "nil"
        \/ client.baseURL \in BadBaseURLs
        \/ \E i \in DOMAIN call.ids : call.ids[i] \in BadIDs)
    => /\ pc = "done"
       /\ LocalError(err)
       /\ sends = 0
       /\ ~request.built
       /\ ~resp.received
       /\ result = Nil

C7_Witness ==
    /\ pc = "done"
    /\ call.f.body = "req"
    /\ call.f.svc = "Customers"
    /\ call.req.Metadata = "invalid"
    /\ client.httpClient # "nil"
    /\ err = MarshalError


(***************************************************************************)
(* Cancellation.  The HTTP executor and the body reader return once the    *)
(* context of the request is done.                                         *)
(***************************************************************************)
SpecLive == Init /\ [][Next]_vars /\ WF_vars(Abort) /\ WF_vars(ReadAbort)

(***************************************************************************)
(* C8 (as stated): if the context is cancelled, or its deadline passes,    *)
(* before the response has been fully read, the call returns a non-nil     *)
(* error that wraps the context's error and is no APIError, and never      *)
(* success or a result.                                                    *)
(***************************************************************************)
C8_CancelledCallFailsWithContextError ==
    (pc = "done" /\ CtxDone(ctx)) =>
        /\ ~IsNil(err)
        /\ Is(err, CtxErr(ctx))
        /\ ~As(err).ok
        /\ result = Nil

(***************************************************************************)
(* C8 (amended): if the context is already done when do invokes the HTTP   *)
(* executor with a request the executor accepts (valid header values), the *)
(* call returns a non-nil error that wraps the context's error and is no   *)
(* APIError, and no result.  If the context becomes done later, while the  *)
(* call is in flight, the call terminates, and unless a complete response  *)
(* was read it returns a non-nil error that is no APIError and wraps the   *)
(* context's error or the failure that struck first, and no result.        *)
(***************************************************************************)
C8_DoneBeforeSend ==
    (pc = "done" /\ request.built /\ CtxDone(call.ctx0)
       /\ client.apiKey \notin BadAPIKeys) =>
        /\ Is(err, CtxErr(call.ctx0))
        /\ LocalError(err)
        /\ result = Nil
        /\ ~resp.received

C8_DoneInFlight ==
    (pc = "done" /\ request.built /\ CtxDone(ctx) /\ ~(resp.received /\ resp.read)) =>
        /\ LocalError(err)
        /\ \/ Is(err, CtxErr(ctx))
           \/ \E cause \in TransportErrors \cup ReadErrors \cup {InvalidHeader} :
                 Is(err, cause)
        /\ result = Nil
        /\ ~decoded

C8_CancellationSurfaces ==
    /\ [](C8_DoneBeforeSend /\ C8_DoneInFlight)
    /\ (pc \in {"awaiting", "reading"} /\ CtxDone(ctx)) ~> (pc = "done")

C8_Witness ==
    /\ pc = "done"
    /\ call.ctx0 = "active"
    /\ ctx = "deadline"
    /\ resp.received
    /\ ~resp.read
    /\ err = ReadError(CtxErr("deadline"))

(***************************************************************************)
(* C9: on a 2xx response do runs the decoder iff a decode target was       *)
(* supplied and the body is non-empty, and it fails, with a local error,   *)
(* iff the decoder ran and failed; so Delete and Revoke return nil on any  *)
(* 2xx response whatever its body.                                         *)
(***************************************************************************)
C9_DecodeOnlyWithTargetAndBody ==
    (Answered /\ Success(resp.status)) =>
        /\ decoded <=> (call.f.out # "none" /\ resp.body.raw # "")
        /\ ~IsNil(err) <=> (decoded /\ UnmarshalOut(resp.body, call.f).err)
        /\ ~IsNil(err) => LocalError(err)
        /\ call.f.op \in {"Delete", "Revoke"} => (IsNil(err) /\ ~decoded)

C9_Witness ==
    /\ Answered
    /\ resp.status = 200
    /\ call.f.op = "Delete"
    /\ resp.body.raw = "{\"message\":\"deleted\"}"
    /\ IsNil(err)

(***************************************************************************)
(* Shapes of a 2xx body with respect to the decode target of method f.     *)
(***************************************************************************)
NotJSON(body) == body.raw # "" /\ body.parse.t = "invalid"

ResourceTypeOK(jv) ==
    \/ jv.t \in {"null", "absent"}
    \/ /\ jv.t = "object"
       /\ Field(jv.f, "id").t \in {"string", "null", "absent"}

StringsTypeOK(jv) ==
    \/ jv.t \in {"null", "absent"}
    \/ /\ jv.t = "array"
       /\ \A i \in DOMAIN jv.a : jv.a[i].t \in {"string", "null"}

\* Some JSON value of the body has a type its place in the target forbids.
WrongType(body, f) ==
    /\ body.parse.t \notin {"invalid", "null"}
    /\ \/ body.parse.t # "object"
       \/ /\ f.out = "wrapper"
          /\ ~ResourceTypeOK(Field(body.parse.f, f.key))
       \/ /\ f.out = "list"
          /\ \/ Field(body.parse.f, f.key).t \notin {"array", "null", "absent"}
             \/ /\ Field(body.parse.f, f.key).t = "array"
                /\ \E i \in DOMAIN Field(body.parse.f, f.key).a :
                       ~ResourceTypeOK(Field(body.parse.f, f.key).a[i])
             \/ Field(body.parse.f, "count").t \notin {"number", "null", "absent"}
       \/ /\ f.out = "ingest"
          /\ \/ ~StringsTypeOK(Field(body.parse.f, "ingested"))
             \/ ~StringsTypeOK(Field(body.parse.f, "duplicates"))

\* The body is a JSON object without the envelope key of the method.
LacksKey(body, f) ==
    /\ body.parse.t = "object"
    /\ f.out \in {"wrapper", "list"}
    /\ Field(body.parse.f, f.key).t = "absent"

(***************************************************************************)
(* C10 (as stated): a 2xx body that does not have the shape the facade     *)
(* method expects (not JSON, a wrong JSON type, or an object without the   *)
(* envelope key) makes the method return a local decode error, no result.  *)
(***************************************************************************)
C10_ShapeMismatchIsDecodeError ==
    (/\ Answered
     /\ Success(resp.status)
     /\ call.f.out # "none"
     /\ \/ NotJSON(resp.body)
        \/ WrongType(resp.body, call.f)
        \/ LacksKey(resp.body, call.f))
    => /\ LocalError(err)
       /\ result = Nil

(***************************************************************************)
(* C10 (amended): a 2xx body that is not valid JSON, or holds a wrong JSON *)
(* type for the target or one of its fields, makes the method return a     *)
(* local decode error and no result.  A JSON object without the envelope   *)
(* key whose other members fit is accepted: the method returns a nil error *)
(* and a result whose resource is the zero value.                          *)
(***************************************************************************)
C10_DecodeErrorOnSyntaxOrType ==
    (Answered /\ Success(resp.status) /\ call.f.out # "none") =>
        /\ (NotJSON(resp.body) \/ WrongType(resp.body, call.f)) =>
              /\ err = DecodeError
              /\ LocalError(err)
              /\ result = Nil
        /\ (LacksKey(resp.body, call.f) /\ ~WrongType(resp.body, call.f)) =>
              /\ IsNil(err)
              /\ result # Nil
              /\ call.f.out = "wrapper" => result = Zero(call.f)
              /\ call.f.out = "list" => result.Items = <<>>

C10_Witness ==
    /\ Answered
    /\ resp.status = 200
    /\ call.f.svc = "Customers"
    /\ call.f.op = "Get"
    /\ resp.body.raw = "{\"customer\":\"r-1\"}"
    /\ err = DecodeError

(***************************************************************************)
(* Results of the facade methods.                                          *)
(***************************************************************************)
\* The errors do returns without having read a response.
DoLocalErrors ==
    {MarshalError, BuildError}
    \cup {ExecuteError(c) : c \in TransportErrors \cup {InvalidHeader}}
    \cup {ExecuteError(CtxErr(c)) : c \in {"canceled", "deadline"}}
    \cup {ReadError(c) : c \in ReadErrors}
    \cup {ReadError(CtxErr(c)) : c \in {"canceled", "deadline"}}

\* The body holds, under key, an object with a string id.
HasPayload(body, key) ==
    /\ body.parse.t = "object"
    /\ key \in DOMAIN body.parse.f
    /\ body.parse.f[key].t = "object"
    /\ "id" \in DOMAIN body.parse.f[key].f
    /\ body.parse.f[key].f["id"].t = "string"

(***************************************************************************)
(* C11: a facade method with a result returns, when do fails, a nil result *)
(* and the very error of do (so the predicates classify it alike), and     *)
(* otherwise a nil error and a non-nil result, which is the payload under  *)
(* the envelope key when the response holds one; never both, never none.   *)
(***************************************************************************)
C11_ResultXorError ==
    (pc = "done" /\ call.f.out # "none") =>
        /\ (result = Nil) # IsNil(err)
        /\ ~IsNil(err) =>
              /\ IF Answered
                 THEN err = Respond(resp.status, resp.body, call.f).err
                 ELSE err \in DoLocalErrors
              /\ err.kind \in {"api", "wrap"}
              /\ err.kind = "api" => Apply("IsNotFound", err) = Ret(resp.status = 404)
        /\ (IsNil(err) /\ call.f.out = "wrapper" /\ Answered
              /\ HasPayload(resp.body, call.f.key)) =>
              result = [kind |-> "resource", ID |-> resp.body.parse.f[call.f.key].f["id"].s]

C11_Witness ==
    /\ Answered
    /\ call.f.svc = "Customers"
    /\ call.f.op = "Create"
    /\ resp.status = 201
    /\ IsNil(err)
    /\ result = [kind |-> "resource", ID |-> "r-1"]

(***************************************************************************)
(* C12: every request handed to the HTTP executor carries the header       *)
(* Authorization: Bearer <the client's API key> and Accept:                *)
(* application/json, and Content-Type: application/json when it has a body.*)
(***************************************************************************)
C12_HeadersOnEveryRequest ==
    request.built =>
        /\ sends = 1
        /\ request.header.Authorization = "Bearer " \o client.apiKey
        /\ request.header.Accept = "application/json"
        /\ request.hasBody => request.header.ContentType = "application/json"

C12_Witness ==
    /\ pc = "awaiting"
    /\ request.built
    /\ request.hasBody
    /\ request.method = "PATCH"
    /\ client.apiKey = "sk_test"
    /\ request.header.Authorization = "Bearer sk_test"

(***************************************************************************)
(* Requests as the server sees them.                                       *)
(***************************************************************************)
\* The query-string key of each field of the parameter structs.
KeyOf ==
    ("CustomerID" :> "customer_id") @@ ("PlanID" :> "plan_id") @@
    ("Status" :> "status") @@ ("MetricID" :> "metric_id") @@
    ("From" :> "from") @@ ("To" :> "to")

\* The fields of a parameter struct that are set: non-empty, non-nil.
SetFields(params) ==
    {fld \in DOMAIN params :
        IF fld \in {"From", "To"} THEN ~params[fld].nil ELSE params[fld] # ""}

\* The query the server is to see for a parameter struct: one value per set
\* field, a time as its RFC 3339 text in UTC.
ExpectedQuery(params) ==
    [k \in {KeyOf[fld] : fld \in SetFields(params)} |->
        LET fld == CHOOSE x \in SetFields(params) : KeyOf[x] = k
        IN  IF fld \in {"From", "To"}
            THEN <<FormatRFC3339(UTC(params[fld]))>>
            ELSE <<params[fld]>>]

(***************************************************************************)
(* C13: for Subscriptions.List, Invoices.List and Usage.Query, the keys of *)
(* the query string the server receives are exactly the parameters that    *)
(* are set, each once and with the given value (a time as its RFC 3339     *)
(* text in UTC); with no parameter set the path has no query string.       *)
(***************************************************************************)
C13_QueryHoldsExactlySetParams ==
    (request.built /\ TakesParams(call.f)) =>
        LET r == Received(request.path)
        IN  /\ r.path = call.f.pre
            /\ r.query = ExpectedQuery(call.req.Params)
            /\ SetFields(call.req.Params) = {} =>
                  /\ ~r.hasQuery
                  /\ request.path = call.f.pre
                  /\ request.url = client.baseURL \o call.f.pre

C13_Witness ==
    /\ pc = "awaiting"
    /\ call.f.svc = "Usage"
    /\ call.req.Params.CustomerID = "cust-abc"
    /\ call.req.Params.MetricID = ""
    /\ ~call.req.Params.From.nil
    /\ call.req.Params.From.off = 1
    /\ call.req.Params.To.nil
    /\ request.path = "/v1/usage?customer_id=cust-abc&from=2026-03-01T23%3A00%3A00Z"

(***************************************************************************)
(* C14 (as stated; the code violates it): PortalTokens.List sends no       *)
(* customer_id parameter with an empty value; it puts the filter into the  *)
(* query string only when the customer ID is set.                          *)
(***************************************************************************)
C14_NoEmptyCustomerIDFilter ==
    (request.built /\ call.f.svc = "PortalTokens" /\ call.f.op = "List") =>
        LET r == Received(request.path)
        IN  /\ "customer_id" \in DOMAIN r.query =>
                  \A i \in DOMAIN r.query["customer_id"] : r.query["customer_id"][i] # ""
            /\ call.ids[1] = "" => ~r.hasQuery

\* The segments of the path of a Get, Update, Delete or Revoke request:
\* those of the collection, then the ID.
ExpectedSegments(f, ids) ==
    LET pre == Split(f.pre, "/")
        mid == Split(f.mid, "/")
    IN  IF f.nids = 1
        THEN SubSeq(pre, 1, Len(pre) - 1) \o <<ids[1]>>
        ELSE SubSeq(pre, 1, Len(pre) - 1) \o <<ids[1]>> \o
             SubSeq(mid, 2, Len(mid) - 1) \o <<ids[2]>>

(***************************************************************************)
(* C15 (as stated; the code violates it): for every ID passed to a Get,    *)
(* Update, Delete or Revoke method the server receives the collection path *)
(* followed by the ID as one segment, and no query string; for every       *)
(* customer ID passed to PortalTokens.List it receives /v1/portal/tokens   *)
(* with the single query parameter customer_id, whose decoded value is the *)
(* ID.                                                                     *)
(***************************************************************************)
C15_IDReachesServerIntact ==
    /\ (request.built /\ call.f.op \in {"Get", "Update", "Delete", "Revoke"}) =>
          LET r == Received(request.path)
          IN  /\ Split(r.path, "/") = ExpectedSegments(call.f, call.ids)
              /\ ~r.hasQuery
    /\ (request.built /\ call.f.svc = "PortalTokens" /\ call.f.op = "List") =>
          LET r == Received(request.path)
          IN  /\ r.path = "/v1/portal/tokens"
              /\ r.query = ("customer_id" :> <<call.ids[1]>>)

\* The body is an Ingest response: two lists of strings.
IsIngestResponse(body) ==
    /\ body.parse.t = "object"
    /\ DOMAIN body.parse.f = {"ingested", "duplicates"}
    /\ \A k \in {"ingested", "duplicates"} :
          /\ body.parse.f[k].t = "array"
          /\ \A i \in DOMAIN body.parse.f[k].a : body.parse.f[k].a[i].t = "string"

\* The strings of a JSON array of strings.
Strings(arr) == [i \in DOMAIN arr.a |-> arr.a[i].s]

\* The events a server decodes from the body of an Ingest request.
ReceivedEvents(doc) ==
    IF doc.f["events"].t = "null" THEN <<>> ELSE doc.f["events"].a

(***************************************************************************)
(* C16: Ingest sends the batch it was given: as many events, in the same   *)
(* order, with the same fields, repeated idempotency keys included; and on *)
(* success it returns the ingested and duplicates lists of the response,   *)
(* element for element.                                                    *)
(***************************************************************************)
C16_IngestForwardsAndReturns ==
    (call.made /\ call.f.op = "Ingest") =>
        /\ request.built =>
              LET sent == ReceivedEvents(request.body)
              IN  /\ request.method = "POST"
                  /\ request.path = "/v1/ingest"
                  /\ DOMAIN request.body.f = {"events"}
                  /\ Len(sent) = Len(call.req.Events)
                  /\ \A i \in DOMAIN sent :
                        /\ sent[i].f["idempotency_key"] = JStr(call.req.Events[i].IdempotencyKey)
                        /\ sent[i].f["event_name"] = JStr(call.req.Events[i].EventName)
                        /\ sent[i].f["customer_id"] = JStr(call.req.Events[i].CustomerID)
        /\ (Answered /\ Success(resp.status) /\ IsIngestResponse(resp.body)) =>
              /\ IsNil(err)
              /\ result.kind = "ingest"
              /\ result.Ingested = Strings(resp.body.parse.f["ingested"])
              /\ result.Duplicates = Strings(resp.body.parse.f["duplicates"])

C16_Witness ==
    /\ Answered
    /\ call.f.op = "Ingest"
    /\ Len(call.req.Events) = 2
    /\ call.req.Events[1].IdempotencyKey = call.req.Events[2].IdempotencyKey
    /\ Len(ReceivedEvents(request.body)) = 2
    /\ resp.status = 200
    /\ result = [kind |-> "ingest", Ingested |-> <<>>, Duplicates |-> <<"key-1", "key-1">>]

(***************************************************************************)
(* C17: the body StartReplay sends always holds from and to, and holds the *)
(* key event_name iff the eventName argument is non-nil, with the string   *)
(* it points to as the value.                                              *)
(***************************************************************************)
C17_ReplayBodyKeys ==
    (request.built /\ call.f.op = "StartReplay") =>
        LET body == request.body.f
        IN  /\ request.hasBody
            /\ {"from", "to"} \subseteq DOMAIN body
            /\ body["from"] = JStr(FormatRFC3339(call.req.From))
            /\ body["to"] = JStr(FormatRFC3339(call.req.To))
            /\ ("event_name" \in DOMAIN body) <=> ~call.req.EventName.nil
            /\ ~call.req.EventName.nil => body["event_name"] = JStr(call.req.EventName.s)
            /\ DOMAIN body \subseteq {"from", "to", "event_name"}

C17_Witness ==
    /\ pc = "awaiting"
    /\ call.f.op = "StartReplay"
    /\ call.req.EventName = StringPtr("")
    /\ request.body.f["event_name"] = JStr("")
    /\ request.body.f["to"] = JStr("2026-03-02T00:00:00+01:00")

(***************************************************************************)
(* Construction.                                                           *)
(***************************************************************************)
AllServices ==
    {"Events", "Customers", "Metrics", "Plans", "Subscriptions",
     "PayoutAccounts", "Invoices", "Usage", "PortalTokens"}

\* The indices of the WithBaseURL options in a list of options.
BaseURLOptions(opts) == {i \in DOMAIN opts : opts[i].opt = "WithBaseURL"}

\* e is u without its trailing slashes.
IsTrimOf(e, u) ==
    /\ Len(e) <= Len(u)
    /\ SubSeq(u, 1, Len(e)) = e
    /\ \A i \in (Len(e) + 1)..Len(u) : SubSeq(u, i, i) = "/"
    /\ e # "" => SubSeq(e, Len(e), Len(e)) # "/"

\* The last element of a non-empty set of indices.
Last(S) == CHOOSE i \in S : \A j \in S : j <= i

(***************************************************************************)
(* C18 (as stated; the code violates it): for every API key and every list *)
(* of options, the client New returns has all nine facades, PortalTokens   *)
(* included, each bound to that client: the calls of each use the client's *)
(* API key, base URL and HTTP executor.                                    *)
(***************************************************************************)
C18_FacadesBoundToClient ==
    pc # "new" =>
        /\ DOMAIN client.services = AllServices
        /\ \A svc \in AllServices :
              /\ client.services[svc].apiKey = client.apiKey
              /\ client.services[svc].baseURL = client.baseURL
              /\ client.services[svc].httpClient = client.httpClient
        /\ client.apiKey = args.apiKey
        /\ request.built =>
              /\ request.url = client.baseURL \o request.path
              /\ request.header.Authorization = "Bearer " \o args.apiKey
        /\ (call.made /\ client.httpClient = "nil"
              /\ ~Unmarshalable(call.req) /\ call.ctx0 # "nil"
              /\ client.baseURL \notin BadBaseURLs
              /\ ~ParsePath(Target(call.f, call.ids, call.req)).err) => pc = "panicked"

\* What holds of the client New returns: it has the eight facades New binds,
\* and no other, each bound to that client.
C18_EightFacadesBoundToClient ==
    pc # "new" =>
        /\ DOMAIN client.services = AllServices \ {"PortalTokens"}
        /\ \A svc \in DOMAIN client.services :
              /\ client.services[svc].apiKey = client.apiKey
              /\ client.services[svc].baseURL = client.baseURL
              /\ client.services[svc].httpClient = client.httpClient
        /\ client.apiKey = args.apiKey
        /\ request.built =>
              /\ request.url = client.baseURL \o request.path
              /\ request.header.Authorization = "Bearer " \o args.apiKey

(***************************************************************************)
(* C19: without a WithBaseURL option every request URL is                  *)
(* https://api.monigo.co followed by the path; with WithBaseURL options it *)
(* is the URL of the last of them, without its trailing slashes, followed  *)
(* by the path.                                                            *)
(***************************************************************************)
C19_BaseURLOfRequests ==
    pc # "new" =>
        /\ IF BaseURLOptions(args.opts) = {}
           THEN client.baseURL = "https://api.monigo.co"
           ELSE IsTrimOf(client.baseURL, args.opts[Last(BaseURLOptions(args.opts))].arg)
        /\ request.built =>
              /\ Len(request.url) = Len(client.baseURL) + Len(request.path)
              /\ SubSeq(request.url, 1, Len(client.baseURL)) = client.baseURL
              /\ SubSeq(request.url, Len(client.baseURL) + 1, Len(request.url))
                    = Target(call.f, call.ids, call.req)

C19_Witness ==
    /\ pc = "awaiting"
    /\ args.opts = <<WithBaseURL("http://bad\nhost"), WithBaseURL("http://127.0.0.1:8080//")>>
    /\ call.f.svc = "Customers"
    /\ call.f.op = "Get"
    /\ request.url = "http://127.0.0.1:8080/v1/customers/cust-abc"

(***************************************************************************)
(* C20: no step of a facade call, successful or failed, changes the        *)
(* client: its API key, base URL, HTTP executor and facade bindings stay   *)
(* as New returned them.                                                   *)
(***************************************************************************)
C20_CallsLeaveClientAlone ==
    [][client' = client]_vars

C20_Witness ==
    /\ Answered
    /\ resp.status = 500
    /\ client.baseURL = "http://127.0.0.1:8080"
    /\ client.apiKey = "sk_test"
    /\ client.services["Customers"] = Config(client)

(***************************************************************************)
(* Concurrent callers.  Several goroutines call facade methods of one      *)
(* shared Client.  Everything do works on is local to the call: the        *)
(* marshalled body, the request, the response body, the APIError and the   *)
(* decode target of the facade method.  The client is only read.           *)
(***************************************************************************)
NumCallers == 2     \* goroutines sharing the client

Callers == 1..NumCallers

\* The methods the callers use: one with an ID in the path, one with a body.
SharedFacades ==
    {f \in Facades : \/ f.svc = "Customers" /\ f.op = "Get"
                     \/ f.svc = "Events" /\ f.op = "Ingest"}

SharedIDLists(f) == IF f.nids = 0 THEN {<<>>} ELSE {<<"cust-abc">>}

SharedReqs(f) ==
    IF f.body = "nil" THEN {NoReq}
    ELSE {[Events |-> <<Event("key-1", "nil")>>],
          [Events |-> <<Event("key-1", "nil"), Event("key-3", "invalid")>>]}

SharedStatuses == {200, 404}

\* The bodies the server answers the callers with.
SharedBodies(f) ==
    {b \in RespBodies(f) :
        b.raw \in {"{\"error\":\"not found\"}",
                   "{\"customer\":{\"id\":\"r-1\"}}",
                   "{\"ingested\":[\"key-1\"],\"duplicates\":[\"key-2\"]}"}}

\* The clients the callers share.
SharedClients ==
    {New("test_key_abc", <<>>),
     New("sk_test", <<WithBaseURL("http://127.0.0.1:8080/")>>)}

\* A caller that is in no facade call.
IdleCaller ==
    [pc |-> "idle", call |-> NoCall, request |-> NoRequest, resp |-> NoResp,
     result |-> Nil, err |-> NoErr]

InitShared ==
    /\ args = NoArgs
    /\ calls = [p \in Callers |-> IdleCaller]
    /\ main = NoMain
    /\ text = NoText
    /\ client \in SharedClients
    /\ pc = "idle"
    /\ call = NoCall
    /\ ctx = "active"
    /\ request = NoRequest
    /\ resp = NoResp
    /\ sends = 0
    /\ decoded = FALSE
    /\ result = Nil
    /\ err = NoErr
    /\ verdict = <<>>

\* The locals of do once it has invoked the HTTP executor, or returned
\* before that.
Started(c, f, ids, req) ==
    LET made == [made |-> TRUE, f |-> f, ids |-> ids, req |-> req, ctx0 |-> "active"]
    IN  IF f.body # "nil" /\ Marshal(req).err
        THEN [IdleCaller EXCEPT !.pc = "done", !.call = made, !.err = MarshalError]
        ELSE IF BuildFails(c, "active", Target(f, ids, req))
        THEN [IdleCaller EXCEPT !.pc = "done", !.call = made, !.err = BuildError]
        ELSE [IdleCaller EXCEPT !.pc = "awaiting", !.call = made,
                                !.request = BuildRequest(c, f, ids, req)]

\* As Start, had do kept the request it builds in a field of the client:
\* every call that waits for the executor then holds the request built last.
StartSharedRequest(p, f, ids, req) ==
    /\ calls[p].pc = "idle"
    /\ LET mine == Started(client.services[f.svc], f, ids, req)
       IN  calls' = [q \in Callers |->
                        IF q = p THEN mine
                        ELSE IF calls[q].pc = "awaiting" /\ mine.pc = "awaiting"
                        THEN [calls[q] EXCEPT !.request = mine.request]
                        ELSE calls[q]]
    /\ UNCHANGED <<args, client, pc, call, ctx, request, resp, sends, decoded,
                   result, err, verdict, main, text>>

\* Caller p calls a facade method with a context that is not done: do
\* marshals the body, builds the request and invokes the HTTP executor.
Start(p, f, ids, req) ==
    /\ calls[p].pc = "idle"
    /\ calls' = [calls EXCEPT ![p] = Started(client.services[f.svc], f, ids, req)]
    /\ UNCHANGED <<args, client, pc, call, ctx, request, resp, sends, decoded,
                   result, err, verdict, main, text>>

\* The executor returns the response to caller p's request.
Receive(p, status) ==
    /\ calls[p].pc = "awaiting"
    /\ calls' = [calls EXCEPT ![p].pc = "reading",
                              ![p].resp = [received |-> TRUE, status |-> status,
                                           read |-> FALSE]]
    /\ UNCHANGED <<args, client, pc, call, ctx, request, resp, sends, decoded,
                   result, err, verdict, main, text>>

\* The executor fails caller p's request.
Fail(p, cause) ==
    /\ calls[p].pc = "awaiting"
    /\ calls' = [calls EXCEPT ![p].pc = "done", ![p].err = ExecuteError(cause)]
    /\ UNCHANGED <<args, client, pc, call, ctx, request, resp, sends, decoded,
                   result, err, verdict, main, text>>

\* io.ReadAll returns the body of caller p's response; do classifies the
\* status and decodes, and the facade method returns.
ReadBody(p, body) ==
    /\ calls[p].pc = "reading"
    /\ body \in SharedBodies(calls[p].call.f)
    /\ LET o == Respond(calls[p].resp.status, body, calls[p].call.f)
       IN  calls' = [calls EXCEPT
                        ![p].pc = "done",
                        ![p].resp = [received |-> TRUE, status |-> calls[p].resp.status,
                                     read |-> TRUE, body |-> body],
                        ![p].err = o.err,
                        ![p].result = FacadeResult(calls[p].call.f, o.err, o.out)]
    /\ UNCHANGED <<args, client, pc, call, ctx, request, resp, sends, decoded,
                   result, err, verdict, main, text>>

\* Caller p has the return values of its call.
Finish(p) ==
    /\ calls[p].pc = "done"
    /\ calls' = [calls EXCEPT ![p] = IdleCaller]
    /\ UNCHANGED <<args, client, pc, call, ctx, request, resp, sends, decoded,
                   result, err, verdict, main, text>>

NextShared ==
    \/ \E p \in Callers : \E f \in SharedFacades : \E ids \in SharedIDLists(f) :
         \E req \in SharedReqs(f) : Start(p, f, ids, req)
    \/ \E p \in Callers : \E status \in SharedStatuses : Receive(p, status)
    \/ \E p \in Callers : \E cause \in TransportErrors : Fail(p, cause)
    \/ \E p \in Callers : \E body \in AllBodies : ReadBody(p, body)
    \/ \E p \in Callers : Finish(p)

SpecShared == InitShared /\ [][NextShared]_vars

\* What a call with the arguments and the response of c holds and returns,
\* whatever the other callers do.
OwnOutcome(c) ==
    LET alone == Started(client.services[c.call.f.svc], c.call.f, c.call.ids, c.call.req)
    IN  /\ c.request = alone.request
        /\ (c.pc = "done" /\ ~c.resp.received) =>
              /\ c.result = Nil
              /\ \/ c.err = alone.err /\ alone.pc = "done"
                 \/ c.err \in {ExecuteError(cause) : cause \in TransportErrors}
                    /\ alone.pc = "awaiting"
        /\ (c.pc = "done" /\ c.resp.received) =>
              LET o == Respond(c.resp.status, c.resp.body, c.call.f)
              IN  /\ c.err = o.err
                  /\ c.result = FacadeResult(c.call.f, o.err, o.out)

(***************************************************************************)
(* C21: for any interleaving of concurrent facade calls on one shared      *)
(* client, each call holds the request built from its own arguments and    *)
(* returns what its own arguments and the response to its own request      *)
(* determine, and a step of one call changes nothing of another call.      *)
(***************************************************************************)
C21_CallsAreIsolated ==
    /\ [](\A p \in Callers : calls[p].pc # "idle" => OwnOutcome(calls[p]))
    /\ [][\A p, q \in Callers :
             (p # q /\ calls'[p] # calls[p]) => calls'[q] = calls[q]]_vars

C21_Witness ==
    /\ calls[1].pc = "done"
    /\ calls[1].call.f.op = "Get"
    /\ calls[1].resp.received
    /\ calls[1].resp.status = 404
    /\ IsNotFound(calls[1].err).value
    /\ calls[2].pc = "done"
    /\ calls[2].call.f.op = "Ingest"
    /\ calls[2].resp.received
    /\ calls[2].resp.status = 200
    /\ calls[2].result.kind = "ingest"
    /\ calls[2].result.Ingested = <<"key-1">>

\* sub occurs in s.
Contains(s, sub) ==
    \E i \in 1..(Len(s) - Len(sub) + 1) : SubSeq(s, i, i + Len(sub) - 1) = sub

(***************************************************************************)
(* C22: for every APIError, Error() is non-empty and contains the HTTP     *)
(* status code, the Message verbatim and, when Details is non-empty, every *)
(* key and every value of Details.                                         *)
(***************************************************************************)
C22_ErrorTextIsComplete ==
    text.called =>
        /\ text.s # ""
        /\ Contains(text.s, "HTTP " \o Itoa(err.StatusCode) \o ":")
        /\ Contains(text.s, ": " \o err.Message)
        /\ \A k \in DOMAIN err.Details :
              Contains(text.s, k \o ":" \o err.Details[k])

C22_Witness ==
    /\ text.called
    /\ err.StatusCode = 400
    /\ err.Message = "<html>Bad Gateway</html>"
    /\ DOMAIN err.Details = {"a", "email", "name"}
    /\ text.s = "monigo: HTTP 400: <html>Bad Gateway</html> (map[a:b c email: name:required])"

(***************************************************************************)
(* C24 (as stated; the code violates it): when the body of a response with *)
(* status >= 400 fails to parse as the error envelope, the returned        *)
(* APIError has the complete raw body text as Message and empty Details,   *)
(* so IsValidationError is false for it.                                   *)
(***************************************************************************)
C24_FailedParseLeavesOnlyRawText ==
    (/\ Answered
     /\ resp.status >= ErrorStatus
     /\ UnmarshalAPIError(resp.body, APIError(resp.status, "", EmptyMap)).err) =>
        /\ err.kind = "api"
        /\ err.Message = resp.body.raw
        /\ err.Details = EmptyMap
        /\ ~IsValidationError(err).value

(***************************************************************************)
(* C25 (as stated; the code violates it): every predicate returns a        *)
(* boolean without panicking for every error value, including a non-nil    *)
(* error interface that holds a nil *APIError pointer.                     *)
(***************************************************************************)
C25_PredicatesNeverPanic ==
    \A i \in DOMAIN verdict : \A p \in Predicates : ~verdict[i][p].panicked

(***************************************************************************)
(* C26 (as stated; the code violates it): after New with any list of       *)
(* options, WithHTTPClient(nil) included, the client's HTTP executor is    *)
(* non-nil, and no facade call reaches the send step with a nil executor.  *)
(***************************************************************************)
C26_ExecutorNeverNil ==
    /\ pc # "new" =>
          /\ client.httpClient # "nil"
          /\ \A svc \in DOMAIN client.services : client.services[svc].httpClient # "nil"
    /\ pc # "panicked"

\* The request that the current call builds on a client that differs from
\* this one in its API key only.
TwinRequest(key) ==
    BuildRequest([client.services[call.f.svc] EXCEPT !.apiKey = key],
                 call.f, call.ids, call.req)

(***************************************************************************)
(* C27: two clients that differ only in their API key, given the same      *)
(* facade call with the same arguments, send requests with the same        *)
(* method, URL and body, whose headers differ in the value of              *)
(* Authorization only; the API key occurs nowhere else in what is sent.    *)
(***************************************************************************)
C27_KeyOnlyInAuthorization ==
    (call.made /\ sends > 0) =>
        /\ \A key \in APIKeys :
              LET twin == TwinRequest(key)
              IN  /\ twin.method = request.method
                  /\ twin.url = request.url
                  /\ twin.body = request.body
                  /\ twin.hasBody = request.hasBody
                  /\ DOMAIN twin.header = DOMAIN request.header
                  /\ \A h \in DOMAIN request.header \ {"Authorization"} :
                        twin.header[h] = request.header[h]
                  /\ twin.header.Authorization = "Bearer " \o key
                  /\ key # client.apiKey =>
                        twin.header.Authorization # request.header.Authorization
        /\ request.header.Authorization = "Bearer " \o client.apiKey
        /\ ~Contains(request.url, client.apiKey)
        /\ ~Contains(request.method, client.apiKey)
        /\ \A h \in DOMAIN request.header \ {"Authorization"} :
              ~Contains(request.header[h], client.apiKey)

C27_Witness ==
    /\ pc = "awaiting"
    /\ sends = 1
    /\ client.apiKey = "sk_test"
    /\ call.f.svc = "Events"
    /\ call.f.op = "Ingest"
    /\ Len(call.req.Events) = 2
    /\ request.header.Authorization = "Bearer sk_test"
    /\ TwinRequest("test_key_abc").header.Authorization = "Bearer test_key_abc"
    /\ TwinRequest("test_key_abc").body = request.body

(***************************************************************************)
(* The metering example (examples/metering): main reads the batch size and *)
(* the number of events from its environment, appends one event per loop   *)
(* iteration to a batch and hands the batch to Events.Ingest when it is    *)
(* full or the last event was appended.                                    *)
(***************************************************************************)
MaxEvents == 4      \* largest TOTAL_EVENTS of the environment
MaxBatch == 3       \* largest BATCH_SIZE of the environment

defaultBatchSize == 100

defaultTotalEvents == 500

\* s is a non-empty string of decimal digits.
IsNumber(s) ==
    /\ s # ""
    /\ \A i \in 1..Len(s) : \E d \in 1..10 : SubSeq(s, i, i) = Digit[d]

\* The number a string of decimal digits denotes.
RECURSIVE Value(_)
Value(s) ==
    IF s = "" THEN 0
    ELSE Value(SubSeq(s, 1, Len(s) - 1)) * 10 +
         (CHOOSE d \in 0..9 : Digit[d + 1] = SubSeq(s, Len(s), Len(s)))

\* strconv.Atoi: an optional sign, then decimal digits.
Atoi(s) ==
    IF IsNumber(s) THEN [err |-> FALSE, n |-> Value(s)]
    ELSE IF Len(s) > 1 /\ SubSeq(s, 1, 1) = "-" /\ IsNumber(SubSeq(s, 2, Len(s)))
    THEN [err |-> FALSE, n |-> 0 - Value(SubSeq(s, 2, Len(s)))]
    ELSE IF Len(s) > 1 /\ SubSeq(s, 1, 1) = "+" /\ IsNumber(SubSeq(s, 2, Len(s)))
    THEN [err |-> FALSE, n |-> Value(SubSeq(s, 2, Len(s)))]
    ELSE [err |-> TRUE, n |-> 0]

\* main: the value of a size variable of the environment, or its default.
EnvInt(v, default) == IF v # "" /\ ~Atoi(v).err THEN Atoi(v).n ELSE default

\* The environments main runs in: BATCH_SIZE unset, not a number, negative,
\* zero or positive; TOTAL_EVENTS a number.
MeteringEnvs ==
    [BATCH_SIZE : {"", "abc", "-1"} \cup {Itoa(n) : n \in 0..MaxBatch},
     TOTAL_EVENTS : {"-1"} \cup {Itoa(n) : n \in 0..MaxEvents}]

\* The event main appends in iteration i.
MeteringEvent(i) ==
    [EventName |-> "api_call", CustomerID |-> "cust-abc",
     IdempotencyKey |-> "run-1-event-" \o Itoa(i),
     Before |-> i,
     Properties |-> [endpoint |-> "/v1/resource/" \o Itoa(i % 10),
                     latency_ms |-> 42 + (i % 30)]]

IngestFacade == CHOOSE f \in Facades : f.svc = "Events" /\ f.op = "Ingest"

\* What the server answers the example's calls with: success, rate limit,
\* server error; the ingest response or an error envelope.
ExampleStatuses == {200, 429, 500}

MeteringBodies ==
    {b \in RespBodies(IngestFacade) :
        b.raw \in {"{\"error\":\"not found\"}",
                   "{\"ingested\":[\"key-1\"],\"duplicates\":[\"key-2\"]}"}}

InitMetering ==
    /\ args = NoArgs
    /\ calls = NoCalls
    /\ text = NoText
    /\ main \in {[running |-> TRUE, prog |-> "metering", pc |-> "start", env |-> e,
                  batchSize |-> 0, totalEvents |-> 0, i |-> 0, batch |-> <<>>,
                  sent |-> <<>>, totalIngested |-> 0, totalDuplicates |-> 0,
                  sleeps |-> 0] : e \in MeteringEnvs}
    /\ client = New("sk_test", <<>>)
    /\ pc = "idle"
    /\ call = NoCall
    /\ ctx = "active"
    /\ request = NoRequest
    /\ resp = NoResp
    /\ sends = 0
    /\ decoded = FALSE
    /\ result = Nil
    /\ err = NoErr
    /\ verdict = <<>>

\* main up to the loop: the sizes are read, and make([]IngestEvent, 0,
\* batchSize) panics for a negative capacity.
Setup ==
    /\ main.running /\ main.prog = "metering" /\ main.pc = "start"
    /\ LET size == EnvInt(main.env.BATCH_SIZE, defaultBatchSize)
           total == EnvInt(main.env.TOTAL_EVENTS, defaultTotalEvents)
       IN  main' = [main EXCEPT !.batchSize = size, !.totalEvents = total,
                                !.pc = IF size < 0 THEN "panicked" ELSE "loop"]
    /\ UNCHANGED <<args, client, pc, call, ctx, request, resp, sends, decoded,
                   result, err, verdict, calls, text>>

\* One iteration of the loop up to the test of the batch: the event is
\* appended, and the batch is handed to Ingest when it is full or the event
\* is the last one.
AppendEvent ==
    /\ main.running /\ main.prog = "metering" /\ main.pc = "loop"
    /\ main.i < main.totalEvents
    /\ LET batch == Append(main.batch, MeteringEvent(main.i))
       IN  IF Len(batch) = main.batchSize \/ main.i = main.totalEvents - 1
           THEN main' = [main EXCEPT !.batch = batch, !.pc = "ingest"]
           ELSE main' = [main EXCEPT !.batch = batch, !.i = @ + 1]
    /\ UNCHANGED <<args, client, pc, call, ctx, request, resp, sends, decoded,
                   result, err, verdict, calls, text>>

\* As AfterIngest, had main retried after every error.
AfterIngestRetryAny(m, e, res) ==
    LET logged == [m EXCEPT !.sent = Append(@, [batch |-> m.batch, err |-> e,
                                                result |-> res,
                                                retry |-> m.pc = "retry",
                                                sleeps |-> m.sleeps])]
    IN  IF e.kind = "nil"
        THEN [logged EXCEPT !.totalIngested = @ + Len(res.Ingested),
                            !.totalDuplicates = @ + Len(res.Duplicates),
                            !.batch = <<>>, !.i = @ + 1, !.pc = "loop"]
        ELSE IF m.pc = "ingest"
        THEN [logged EXCEPT !.pc = "sleep"]
        ELSE [logged EXCEPT !.pc = "fatal"]

\* main once Ingest has returned res and e for the batch: the tally and the
\* next iteration, the pause before the one retry, or log.Fatalf.
AfterIngest(m, e, res) ==
    LET logged == [m EXCEPT !.sent = Append(@, [batch |-> m.batch, err |-> e,
                                                result |-> res,
                                                retry |-> m.pc = "retry",
                                                sleeps |-> m.sleeps])]
    IN  IF e.kind = "nil"
        THEN [logged EXCEPT !.totalIngested = @ + Len(res.Ingested),
                            !.totalDuplicates = @ + Len(res.Duplicates),
                            !.batch = <<>>, !.i = @ + 1, !.pc = "loop"]
        ELSE IF m.pc = "ingest" /\ IsRateLimited(e).value
        THEN [logged EXCEPT !.pc = "sleep"]
        ELSE [logged EXCEPT !.pc = "fatal"]

\* Ingest returns after the server answered with status and body.
IngestReturns(status, body) ==
    /\ main.running /\ main.prog = "metering" /\ main.pc \in {"ingest", "retry"}
    /\ body \in MeteringBodies
    /\ LET o == Respond(status, body, IngestFacade)
       IN  main' = AfterIngest(main, o.err, FacadeResult(IngestFacade, o.err, o.out))
    /\ UNCHANGED <<args, client, pc, call, ctx, request, resp, sends, decoded,
                   result, err, verdict, calls, text>>

\* Ingest returns a failure of the HTTP executor.
IngestFails(cause) ==
    /\ main.running /\ main.prog = "metering" /\ main.pc \in {"ingest", "retry"}
    /\ main' = AfterIngest(main, ExecuteError(cause), Nil)
    /\ UNCHANGED <<args, client, pc, call, ctx, request, resp, sends, decoded,
                   result, err, verdict, calls, text>>

\* time.Sleep(time.Second) returns: main sends the same batch again.
Sleep ==
    /\ main.running /\ main.prog = "metering" /\ main.pc = "sleep"
    /\ main' = [main EXCEPT !.pc = "retry", !.sleeps = @ + 1]
    /\ UNCHANGED <<args, client, pc, call, ctx, request, resp, sends, decoded,
                   result, err, verdict, calls, text>>

\* The loop ends and main prints the totals.
Done ==
    /\ main.running /\ main.prog = "metering" /\ main.pc = "loop"
    /\ main.i >= main.totalEvents
    /\ main' = [main EXCEPT !.pc = "exit"]
    /\ UNCHANGED <<args, client, pc, call, ctx, request, resp, sends, decoded,
                   result, err, verdict, calls, text>>

NextMetering ==
    \/ Setup
    \/ AppendEvent
    \/ \E status \in ExampleStatuses : \E body \in AllBodies : IngestReturns(status, body)
    \/ \E cause \in {Plain("connection refused")} : IngestFails(cause)
    \/ Sleep
    \/ Done

SpecMetering == InitMetering /\ [][NextMetering]_vars

\* The indices of the events of the batches of calls, in the order sent.
RECURSIVE SentIndices(_)
SentIndices(sent) ==
    IF sent = <<>> THEN <<>>
    ELSE SentIndices(SubSeq(sent, 1, Len(sent) - 1)) \o
         [k \in DOMAIN sent[Len(sent)].batch |-> sent[Len(sent)].batch[k].Before]

\* The number of strings the successful calls of sent returned under field.
RECURSIVE Tally(_, _)
Tally(sent, field) ==
    IF sent = <<>> THEN 0
    ELSE Tally(SubSeq(sent, 1, Len(sent) - 1), field) +
         (IF sent[Len(sent)].err.kind = "nil"
          THEN Len(sent[Len(sent)].result[field]) ELSE 0)

\* e is a rate-limited error: an APIError with status 429.
RateLimit(e) == e.kind = "api" /\ e.StatusCode = 429

(***************************************************************************)
(* C28 (as stated; the code violates it): in the metering example, for     *)
(* every total number of events and every batch size the program accepts   *)
(* from its environment, when all Ingest calls succeed each event index    *)
(* 0..totalEvents-1 is sent in exactly one batch, in increasing order, no   *)
(* batch holds more than batchSize events, no empty batch is sent, and the *)
(* batch buffer is empty when the loop ends.                               *)
(***************************************************************************)
C28_EveryEventInOneBoundedBatch ==
    (/\ main.running /\ main.prog = "metering"
     /\ main.pc \in {"exit", "panicked"}
     /\ \A k \in DOMAIN main.sent : main.sent[k].err.kind = "nil") =>
        /\ main.pc = "exit"
        /\ SentIndices(main.sent) =
              [k \in 1..(IF main.totalEvents > 0 THEN main.totalEvents ELSE 0) |-> k - 1]
        /\ \A k \in DOMAIN main.sent :
              /\ Len(main.sent[k].batch) <= main.batchSize
              /\ Len(main.sent[k].batch) >= 1
        /\ main.batch = <<>>

\* The same, for the batch sizes from 1 on.
C28_PositiveBatchSizes ==
    (main.running /\ main.prog = "metering" /\ main.pc # "start"
     /\ main.batchSize >= 1) => C28_EveryEventInOneBoundedBatch

(***************************************************************************)
(* C29: in the metering example, when Ingest for a batch returns a         *)
(* rate-limited error the program sends exactly that batch again, exactly  *)
(* once, after pausing; if the first error is no rate limit, or the retry  *)
(* fails for any reason (a second rate limit included), the program aborts *)
(* and sends no further batch; a batch that succeeded is added to the      *)
(* ingested and duplicate totals exactly once.                             *)
(***************************************************************************)
C29_OneRetryOnRateLimit ==
    (main.running /\ main.prog = "metering") =>
        /\ \A k \in DOMAIN main.sent :
              LET c == main.sent[k] IN
              /\ (RateLimit(c.err) /\ ~c.retry) =>
                    IF k = Len(main.sent)
                    THEN main.pc \in {"sleep", "retry"} /\ main.batch = c.batch
                    ELSE /\ main.sent[k + 1].retry
                         /\ main.sent[k + 1].batch = c.batch
                         /\ main.sent[k + 1].sleeps = c.sleeps + 1
              /\ c.retry =>
                    /\ k > 1
                    /\ RateLimit(main.sent[k - 1].err)
                    /\ ~main.sent[k - 1].retry
              /\ (c.err.kind # "nil" /\ (c.retry \/ ~RateLimit(c.err))) =>
                    k = Len(main.sent) /\ main.pc = "fatal"
              /\ (c.err.kind = "nil" /\ k < Len(main.sent)) =>
                    \A j \in (k + 1)..Len(main.sent) :
                        \A x \in DOMAIN c.batch : \A y \in DOMAIN main.sent[j].batch :
                            c.batch[x] # main.sent[j].batch[y]
        /\ main.pc = "retry" => main.sleeps = main.sent[Len(main.sent)].sleeps + 1
        /\ main.totalIngested = Tally(main.sent, "Ingested")
        /\ main.totalDuplicates = Tally(main.sent, "Duplicates")

C29_Witness ==
    /\ main.running /\ main.prog = "metering"
    /\ main.pc = "exit"
    /\ main.batchSize = 2
    /\ main.totalEvents = 3
    /\ Len(main.sent) = 3
    /\ RateLimit(main.sent[1].err)
    /\ main.sent[2].retry
    /\ main.sent[2].err.kind = "nil"
    /\ main.sent[2].batch = main.sent[1].batch
    /\ Len(main.sent[3].batch) = 1
    /\ main.totalIngested = 1
    /\ main.totalDuplicates = 1

(***************************************************************************)
(* The payouts example (examples/payouts), from the start of the event     *)
(* replay on: main starts a replay and polls GetReplay every three seconds *)
(* until the job is completed or failed, or two minutes have passed.       *)
(* Time is counted in seconds since main started the replay.               *)
(***************************************************************************)
pollTimeout == 120

pollInterval == 3

\* The seconds a call of GetReplay may take.
CallSeconds == {0, 60}

JobStatuses == {"pending", "processing", "completed", "failed"}

\* The answers of the server to StartReplay and GetReplay: the job in each
\* status, and an error envelope.
JobBodies ==
    {Body("{\"job\":{\"id\":\"job-1\",\"status\":\"" \o st \o "\"}}",
          JObj("job" :> JObj(("id" :> JStr("job-1")) @@ ("status" :> JStr(st))))) :
        st \in JobStatuses}
    \cup {Body("{\"error\":\"not found\"}", JObj("error" :> JStr("not found")))}

\* The zero EventReplayJob.
ZeroJob == [ID |-> "", Status |-> ""]

\* json.Unmarshal of a response body into the wrapper of StartReplay and
\* GetReplay.
UnmarshalJob(body) ==
    LET p == body.parse IN
    CASE p.t = "invalid" -> [err |-> TRUE, val |-> ZeroJob]
      [] p.t = "null" -> [err |-> FALSE, val |-> ZeroJob]
      [] p.t = "object" ->
            LET j == Field(p.f, "job") IN
            CASE j.t = "object" ->
                    LET id == DecodeString(Field(j.f, "id"), "")
                        st == DecodeString(Field(j.f, "status"), "")
                    IN  [err |-> id.err \/ st.err,
                         val |-> [ID |-> id.val, Status |-> st.val]]
              [] j.t \in {"absent", "null"} -> [err |-> FALSE, val |-> ZeroJob]
              [] OTHER -> [err |-> TRUE, val |-> ZeroJob]
      [] OTHER -> [err |-> TRUE, val |-> ZeroJob]

\* What StartReplay and GetReplay return for a response: the job, or an
\* error and no job.
ReplayResult(status, body) ==
    IF status >= ErrorStatus
    THEN [err |-> ErrorResponse(status, body), job |-> ZeroJob]
    ELSE IF body.raw # "" /\ UnmarshalJob(body).err
    THEN [err |-> DecodeError, job |-> ZeroJob]
    ELSE IF body.raw # ""
    THEN [err |-> NoErr, job |-> UnmarshalJob(body).val]
    ELSE [err |-> NoErr, job |-> ZeroJob]

InitPayouts ==
    /\ args = NoArgs
    /\ calls = NoCalls
    /\ text = NoText
    /\ main = [running |-> TRUE, prog |-> "payouts", pc |-> "start", now |-> 0,
               deadline |-> 0, job |-> ZeroJob, polls |-> 0, fetched |-> <<>>,
               report |-> ""]
    /\ client = New("sk_test", <<>>)
    /\ pc = "idle"
    /\ call = NoCall
    /\ ctx = "active"
    /\ request = NoRequest
    /\ resp = NoResp
    /\ sends = 0
    /\ decoded = FALSE
    /\ result = Nil
    /\ err = NoErr
    /\ verdict = <<>>

\* StartReplay returns: log.Fatalf on an error, else the deadline of the
\* poll loop is set.
ReplayStarted(status, body) ==
    /\ main.running /\ main.prog = "payouts" /\ main.pc = "start"
    /\ body \in JobBodies
    /\ LET r == ReplayResult(status, body)
       IN  IF r.err.kind # "nil"
           THEN main' = [main EXCEPT !.pc = "fatal"]
           ELSE main' = [main EXCEPT !.job = r.job, !.pc = "check",
                                     !.deadline = main.now + pollTimeout]
    /\ UNCHANGED <<args, client, pc, call, ctx, request, resp, sends, decoded,
                   result, err, verdict, calls, text>>

\* The loop condition time.Now().Before(deadline): the next round, or the
\* end of the loop and the report of the job's status.
CheckDeadline ==
    /\ main.running /\ main.prog = "payouts" /\ main.pc = "check"
    /\ IF main.now < main.deadline
       THEN main' = [main EXCEPT !.pc = "sleep"]
       ELSE main' = [main EXCEPT !.pc = "exit", !.report = main.job.Status]
    /\ UNCHANGED <<args, client, pc, call, ctx, request, resp, sends, decoded,
                   result, err, verdict, calls, text>>

\* time.Sleep(3 * time.Second) returns and main calls GetReplay.
PollSleep ==
    /\ main.running /\ main.prog = "payouts" /\ main.pc = "sleep"
    /\ main' = [main EXCEPT !.now = @ + pollInterval, !.pc = "poll",
                            !.polls = @ + 1]
    /\ UNCHANGED <<args, client, pc, call, ctx, request, resp, sends, decoded,
                   result, err, verdict, calls, text>>

\* GetReplay returns after took seconds: log.Fatalf on an error; a job that
\* is completed or failed ends the loop and is reported; else the loop
\* condition is tested again.
ReplayFetched(status, body, took) ==
    /\ main.running /\ main.prog = "payouts" /\ main.pc = "poll"
    /\ body \in JobBodies
    /\ LET r == ReplayResult(status, body)
           m == [main EXCEPT !.now = @ + took,
                             !.fetched = IF r.err.kind = "nil"
                                         THEN <<r.job.Status>> ELSE <<>>]
       IN  IF r.err.kind # "nil"
           THEN main' = [m EXCEPT !.pc = "fatal"]
           ELSE IF r.job.Status \in {"completed", "failed"}
           THEN main' = [m EXCEPT !.job = r.job, !.pc = "exit",
                                  !.report = r.job.Status]
           ELSE main' = [m EXCEPT !.pc = "check"]
    /\ UNCHANGED <<args, client, pc, call, ctx, request, resp, sends, decoded,
                   result, err, verdict, calls, text>>

NextPayouts ==
    \/ \E status \in ExampleStatuses : \E body \in AllBodies \cup JobBodies :
         ReplayStarted(status, body)
    \/ CheckDeadline
    \/ PollSleep
    \/ \E status \in ExampleStatuses : \E body \in AllBodies \cup JobBodies :
         \E took \in CallSeconds : ReplayFetched(status, body, took)

SpecPayouts == InitPayouts /\ [][NextPayouts]_vars

\* Every call of the server returns, and main runs on.
SpecPayoutsLive ==
    /\ InitPayouts /\ [][NextPayouts]_vars
    /\ WF_vars(NextPayouts)

(***************************************************************************)
(* C30 (as stated; the code violates it): the payouts example polls        *)
(* GetReplay until the replay job reaches a terminal status (completed or  *)
(* failed) and only then reports the replay as finished, with that status. *)
(***************************************************************************)
C30_ReportsTerminalStatusOnly ==
    (main.running /\ main.prog = "payouts" /\ main.pc = "exit") =>
        main.report \in {"completed", "failed"}

\* The poll loop always terminates, where every call returns.
C30_PollLoopTerminates ==
    <>(main.pc \in {"exit", "fatal"})

\* What holds of the report: it is the status of the last job fetched if
\* that is terminal, and else the status StartReplay returned, reported once
\* the two minutes have passed.
C30_ReportAtTerminalStatusOrTimeout ==
    (main.running /\ main.prog = "payouts" /\ main.pc = "exit") =>
        \/ /\ main.report \in {"completed", "failed"}
           /\ main.fetched = <<main.report>>
        \/ /\ main.now >= main.deadline
           /\ main.report = main.job.Status
           /\ main.polls >= 1

====
